---- MODULE Spec2Model ----
(***************************************************************************)
(* Model of the id-manager crate: Interval, Intervals (a BTreeSet of       *)
(* disjoint intervals holding the free ids), IdManager (allocation under a *)
(* reuse policy with a wrapping cursor), and the Mutex wrapper with its    *)
(* scoped SmartId guard.                                                   *)
(***************************************************************************)
EXTENDS Integers, Sequences, FiniteSets, TLC

\* ------------------------------------------------------------------------
\* The id type T (id_type.rs): an unsigned integer with fixed MIN and MAX.
\* The model uses a narrow unsigned type 0..TMAX; arithmetic keeps the width.
\* ------------------------------------------------------------------------
TMIN == 0

TMAX == 4

T == TMIN..TMAX

Modulus == TMAX + 1

\* T + T::one() and T - T::one() at the width of the type
Add1(v) == (v + 1) % Modulus

Sub1(v) == (v + Modulus - 1) % Modulus

\* "no id": the value of a result slot when an operation returned nothing
NoId == 0 - 1

ReuseFast == "ReuseFast"

ReuseSlow == "ReuseSlow"

ReusePolicy == {ReuseFast, ReuseSlow}

SetMin(S) == CHOOSE x \in S : \A y \in S : x <= y

SetMax(S) == CHOOSE x \in S : \A y \in S : x >= y

\* ------------------------------------------------------------------------
\* Interval (interval.rs)
\* ------------------------------------------------------------------------
Interval(lower, upper) == [lower |-> lower, upper |-> upper]

\* Interval::new panics ("upper must be >= lower") exactly when this is FALSE
IntervalNewOk(lower, upper) == ~(upper < lower)

new_single_value_interval(value) == Interval(value, value)

contains_value(self, value) == value >= self.lower /\ value <= self.upper

overlaps(self, value) == value.upper >= self.lower /\ value.lower <= self.upper

extends_lower(self, value) ==
    IF value.upper = TMAX THEN FALSE
    ELSE Add1(value.upper) = self.lower

extends_upper(self, value) ==
    IF value.lower = TMIN THEN FALSE
    ELSE Sub1(value.lower) = self.upper

\* impl Display for Interval: "[v]" for a single value, "[lower,upper]" otherwise
fmt(self) ==
    IF self.lower = self.upper
    THEN "[" \o ToString(self.lower) \o "]"
    ELSE "[" \o ToString(self.lower) \o "," \o ToString(self.upper) \o "]"

\* the integer comparison T::cmp
ord_cmp(a, b) == IF a < b THEN "Less" ELSE IF a > b THEN "Greater" ELSE "Equal"

\* the first test answers Greater where the code answers Less
cmp_of_lower_reversed(lower_is, upper_is) ==
    IF lower_is = "Less" THEN "Greater"
    ELSE IF upper_is = "Greater" THEN "Greater"
    ELSE IF upper_is = "Less" THEN "Less"
    ELSE IF lower_is = "Greater" THEN "Greater"
    ELSE "Equal"

\* the decision of Interval::cmp on the two component comparisons, the tests
\* made in the order of the code
cmp_of(lower_is, upper_is) ==
    IF lower_is = "Less" THEN "Less"
    ELSE IF upper_is = "Greater" THEN "Greater"
    ELSE IF upper_is = "Less" THEN "Less"
    ELSE IF lower_is = "Greater" THEN "Greater"
    ELSE "Equal"

\* impl Ord for Interval
cmp(self, other) ==
    cmp_of(ord_cmp(self.lower, other.lower), ord_cmp(self.upper, other.upper))

\* ------------------------------------------------------------------------
\* BTreeSet<Interval<T>>: the keys in tree order, as a sequence.  Every
\* search is the node scan of the standard library: walk the keys in order
\* while key.cmp(k) is Greater, stop at the first k that is Equal or Less.
\* ------------------------------------------------------------------------
FirstOr(stops, none) == IF stops = {} THEN none ELSE SetMin(stops)

KeyIndex(s, key) ==
    FirstOr({i \in 1..Len(s) : cmp(key, s[i]) # "Greater"}, Len(s) + 1)

\* the scan stopped at i on a key Equal to the searched one
KeyFoundAt(s, key, i) == i <= Len(s) /\ cmp(key, s[i]) = "Equal"

InsertAt(s, key, i) ==
    IF KeyFoundAt(s, key, i) THEN s
    ELSE SubSeq(s, 1, i - 1) \o <<key>> \o SubSeq(s, i, Len(s))

\* BTreeSet::insert: an Equal key is kept, a new key goes in where the scan stops
BTreeInsert(s, key) == InsertAt(s, key, KeyIndex(s, key))

RemoveAt(s, key, i) ==
    IF KeyFoundAt(s, key, i)
    THEN SubSeq(s, 1, i - 1) \o SubSeq(s, i + 1, Len(s))
    ELSE s

\* BTreeSet::remove: only an Equal key is removed
BTreeRemove(s, key) == RemoveAt(s, key, KeyIndex(s, key))

\* range((Included(key), Unbounded))
RangeFromIncluded(s, key) == SubSeq(s, KeyIndex(s, key), Len(s))

UpToIncluded(s, key, i) ==
    IF KeyFoundAt(s, key, i) THEN SubSeq(s, 1, i) ELSE SubSeq(s, 1, i - 1)

\* range((Unbounded, Included(key)))
RangeToIncluded(s, key) == UpToIncluded(s, key, KeyIndex(s, key))

\* range((Unbounded, Excluded(key)))
RangeToExcluded(s, key) == SubSeq(s, 1, KeyIndex(s, key) - 1)

\* Range::min and Range::max: the first and the last key of the range
RangeMin(r) == r[1]

RangeMax(r) == r[Len(r)]

\* the set of id values held by the stored intervals
Values(s) == UNION {s[i].lower..s[i].upper : i \in DOMAIN s}

\* ------------------------------------------------------------------------
\* Intervals (intervals.rs).  Each operation maps the stored sequence to the
\* new sequence and its return value.
\* ------------------------------------------------------------------------
is_empty(s) == s = <<>>

\* the two probes of find, on the ranges before and after the interval
FindIn(before, after, interval) ==
    IF before # <<>> /\ overlaps(RangeMax(before), interval)
    THEN [some |-> TRUE, interval |-> RangeMax(before)]
    ELSE IF after # <<>> /\ overlaps(RangeMin(after), interval)
    THEN [some |-> TRUE, interval |-> RangeMin(after)]
    ELSE [some |-> FALSE, interval |-> interval]

\* the intervals written last to first
dump_reversed(s) ==
    LET out[i \in 0..Len(s)] ==
            IF i = 0 THEN ""
            ELSE out[i - 1] \o (IF i # 1 THEN ", " ELSE "") \o fmt(s[Len(s) + 1 - i])
    IN  out[Len(s)]

\* Intervals::dump, format!("{}", self) with impl Display for Intervals: the
\* intervals in the iteration order of the BTreeSet, ", " before each but
\* the first
dump(s) ==
    LET out[i \in 0..Len(s)] ==
            IF i = 0 THEN ""
            ELSE out[i - 1] \o (IF i # 1 THEN ", " ELSE "") \o fmt(s[i])
    IN  out[Len(s)]

\* find: the stored interval that overlaps the probe, or none
find(s, interval) ==
    FindIn(RangeToIncluded(s, interval), RangeFromIncluded(s, interval), interval)

\* variant: the previous interval is never joined, only the next extended
insert_or_join_intervals_next_only(s, interval, next, prev) ==
    IF extends_lower(next, interval)
    THEN BTreeInsert(BTreeRemove(s, next), Interval(interval.lower, next.upper))
    ELSE BTreeInsert(s, interval)

insert_or_join_intervals(s, interval, next, prev) ==
    LET next_extends == extends_lower(next, interval)
        prev_extends == extends_upper(prev, interval)
    IN  IF next_extends /\ prev_extends
        THEN BTreeInsert(BTreeRemove(BTreeRemove(s, prev), next),
                         Interval(prev.lower, next.upper))
        ELSE IF next_extends
        THEN BTreeInsert(BTreeRemove(s, next), Interval(interval.lower, next.upper))
        ELSE IF prev_extends
        THEN BTreeInsert(BTreeRemove(s, prev), Interval(prev.lower, interval.upper))
        ELSE BTreeInsert(s, interval)

\* variant: the interval is never merged with the next one
insert_or_merge_with_next_no_merge(s, interval, next) == BTreeInsert(s, interval)

insert_or_merge_with_next(s, interval, next) ==
    IF extends_lower(next, interval)
    THEN BTreeInsert(BTreeRemove(s, next), Interval(interval.lower, next.upper))
    ELSE BTreeInsert(s, interval)

\* variant: the interval is never merged with the previous one
insert_or_merge_with_prev_no_merge(s, interval, prev) == BTreeInsert(s, interval)

insert_or_merge_with_prev(s, interval, prev) ==
    IF extends_upper(prev, interval)
    THEN BTreeInsert(BTreeRemove(s, prev), Interval(prev.lower, interval.upper))
    ELSE BTreeInsert(s, interval)

\* variant: only the interval after the new one is tested for an overlap
InsertBetween_next_only(s, interval, intervals_after, intervals_before) ==
    IF intervals_after # <<>> /\ overlaps(RangeMin(intervals_after), interval)
    THEN [ok |-> FALSE, set |-> s]
    ELSE IF intervals_after # <<>> /\ intervals_before # <<>>
    THEN [ok |-> TRUE,
          set |-> insert_or_join_intervals(s, interval, RangeMin(intervals_after),
                                           RangeMax(intervals_before))]
    ELSE IF intervals_after # <<>>
    THEN [ok |-> TRUE,
          set |-> insert_or_merge_with_next(s, interval, RangeMin(intervals_after))]
    ELSE IF intervals_before # <<>>
    THEN [ok |-> TRUE,
          set |-> insert_or_merge_with_prev(s, interval, RangeMax(intervals_before))]
    ELSE [ok |-> TRUE, set |-> BTreeInsert(s, interval)]

\* the body of insert once the two neighbour ranges are taken
InsertBetween(s, interval, intervals_after, intervals_before) ==
    IF intervals_after # <<>> /\ overlaps(RangeMin(intervals_after), interval)
    THEN [ok |-> FALSE, set |-> s]
    ELSE IF intervals_before # <<>> /\ overlaps(RangeMax(intervals_before), interval)
    THEN [ok |-> FALSE, set |-> s]
    ELSE IF intervals_after # <<>> /\ intervals_before # <<>>
    THEN [ok |-> TRUE,
          set |-> insert_or_join_intervals(s, interval, RangeMin(intervals_after),
                                           RangeMax(intervals_before))]
    ELSE IF intervals_after # <<>>
    THEN [ok |-> TRUE,
          set |-> insert_or_merge_with_next(s, interval, RangeMin(intervals_after))]
    ELSE IF intervals_before # <<>>
    THEN [ok |-> TRUE,
          set |-> insert_or_merge_with_prev(s, interval, RangeMax(intervals_before))]
    ELSE [ok |-> TRUE, set |-> BTreeInsert(s, interval)]

\* insert: [ok |-> the returned bool, set |-> the stored intervals afterwards]
insert(s, interval) ==
    InsertBetween(s, interval, RangeFromIncluded(s, interval),
                  RangeToExcluded(s, interval))

\* insert_interval; the caller has checked IntervalNewOk(lower, upper)
insert_interval(s, lower, upper) == insert(s, Interval(lower, upper))

insert_value(s, value) == insert(s, new_single_value_interval(value))

\* variant: takes the last stored interval instead of the first
remove_first_interval_takes_last(s) ==
    [interval |-> s[Len(s)], set |-> BTreeRemove(s, s[Len(s)])]

\* remove_first_interval on a non-empty set (it panics with "Empty!" otherwise)
remove_first_interval(s) == [interval |-> s[1], set |-> BTreeRemove(s, s[1])]

\* variant: puts the whole first interval back, first value included
TakeLower_keeps_lower(first_interval, rest) ==
    IF first_interval.lower # first_interval.upper
    THEN [value |-> first_interval.lower,
          set |-> BTreeInsert(rest, Interval(first_interval.lower, first_interval.upper))]
    ELSE [value |-> first_interval.lower, set |-> rest]

\* the rest of remove_first_value once the first interval is taken out
TakeLower(first_interval, rest) ==
    IF first_interval.lower # first_interval.upper
    THEN [value |-> first_interval.lower,
          set |-> BTreeInsert(rest, Interval(Add1(first_interval.lower),
                                             first_interval.upper))]
    ELSE [value |-> first_interval.lower, set |-> rest]

\* variant: the value is taken from the last interval
remove_first_value_from_last(s) ==
    TakeLower(s[Len(s)], BTreeRemove(s, s[Len(s)]))

\* remove_first_value on a non-empty set
remove_first_value(s) == TakeLower(s[1], remove_first_interval(s).set)

\* variant: the remainder below the removed value is not put back
InsertBelow_dropped(s, interval, value) == s

\* remove_value: the remainder below the value is inserted
InsertBelow(s, interval, value) ==
    IF interval.lower < value
    THEN BTreeInsert(s, Interval(interval.lower, Sub1(value)))
    ELSE s

\* variant: the remainder above the removed value is not put back
InsertAbove_dropped(s, interval, value) == s

\* remove_value: the remainder above the value is inserted
InsertAbove(s, interval, value) ==
    IF value < interval.upper
    THEN BTreeInsert(s, Interval(Add1(value), interval.upper))
    ELSE s

\* variant: the interval found is split around the value but not removed,
\* so the value stays in the set
SplitAt_keeps_interval(s, value, f) ==
    IF f.some
    THEN [ok |-> TRUE, set |-> s]
    ELSE [ok |-> FALSE, set |-> s]

\* the body of remove_value on the outcome f of find
SplitAt(s, value, f) ==
    IF f.some
    THEN [ok |-> TRUE,
          set |-> BTreeRemove(InsertAbove(InsertBelow(s, f.interval, value),
                                          f.interval, value),
                              f.interval)]
    ELSE [ok |-> FALSE, set |-> s]

\* remove_value: [ok |-> the returned bool, set |-> the intervals afterwards]
remove_value(s, value) == SplitAt(s, value, find(s, new_single_value_interval(value)))

\* variant: only an interval lying wholly inside the range is removed
RemoveThese_overlap_only(remove_these, interval, lower, upper) ==
    IF interval.lower >= lower /\ interval.upper <= upper
    THEN BTreeInsert(remove_these, interval)
    ELSE remove_these

\* one pass of the loop of remove_interval: remove_these after the interval
RemoveThese(remove_these, interval, lower, upper) ==
    IF overlaps(Interval(lower, upper), interval)
    THEN BTreeInsert(remove_these, interval)
    ELSE IF contains_value(interval, lower) \/ contains_value(interval, upper)
    THEN BTreeInsert(remove_these, interval)
    ELSE remove_these

\* variant: the remainder below keeps the value lower itself
AddBelow_keeps_lower(add_these, interval, lower) ==
    IF interval.lower < lower /\ interval.upper >= lower
    THEN BTreeInsert(add_these, Interval(interval.lower, lower))
    ELSE add_these

\* one pass of the loop of remove_interval: the remainder below lower
AddBelow(add_these, interval, lower) ==
    IF interval.lower < lower /\ interval.upper >= lower
    THEN BTreeInsert(add_these, Interval(interval.lower, Sub1(lower)))
    ELSE add_these

\* one pass of the loop of remove_interval: the remainder above upper
AddAbove(add_these, interval, upper) ==
    IF interval.upper > upper /\ interval.lower <= upper
    THEN BTreeInsert(add_these, Interval(Add1(upper), interval.upper))
    ELSE add_these

\* the loop of remove_interval over the visited intervals: the two
\* collections remove_these and add_these
RECURSIVE RemoveIntervalScan(_, _, _, _, _)
RemoveIntervalScan(visit, lower, upper, remove_these, add_these) ==
    IF visit = <<>> THEN [remove_these |-> remove_these, add_these |-> add_these]
    ELSE RemoveIntervalScan(Tail(visit), lower, upper,
             RemoveThese(remove_these, Head(visit), lower, upper),
             AddAbove(AddBelow(add_these, Head(visit), lower), Head(visit), upper))

RECURSIVE RemoveAll(_, _)
RemoveAll(s, keys) ==
    IF keys = <<>> THEN s ELSE RemoveAll(BTreeRemove(s, Head(keys)), Tail(keys))

RECURSIVE InsertAll(_, _)
InsertAll(s, keys) ==
    IF keys = <<>> THEN s ELSE InsertAll(BTreeInsert(s, Head(keys)), Tail(keys))

\* the two final loops of remove_interval
ApplyScan(s, c) == InsertAll(RemoveAll(s, c.remove_these), c.add_these)

\* remove_interval; the caller has checked IntervalNewOk(lower, upper)
remove_interval(s, lower, upper) ==
    ApplyScan(s, RemoveIntervalScan(RangeFromIncluded(s, Interval(TMIN, lower)),
                                    lower, upper, <<>>, <<>>))

\* ------------------------------------------------------------------------
\* State.  The IdManager fields, the record of the last call and its
\* outcome, and history variables used to state the properties.
\* ------------------------------------------------------------------------
VARIABLES
    free_ids,          \* IdManager.free_ids: the Intervals' BTreeSet, in order
    reuse_policy,      \* IdManager.reuse_policy
    next_to_allocate,  \* IdManager.next_to_allocate
    min_id,            \* IdManager.min_id
    max_id,            \* IdManager.max_id
    op,                \* name of the last call
    args,              \* its arguments
    ret,               \* the id it returned, NoId when it returned none
    result,            \* "Ok", "true", "false", or the panic it ended with
    allocated,         \* history: ids of [min_id,max_id] taken by allocate or
                       \* mark-used and not freed since
    refreed,           \* history: the id x and how far the sequence allocate -> x,
                       \* free(x), allocate has got
    phase              \* the allocate-all-and-wrap scenario: its stage and the
                       \* number of allocate calls made in it

VARIABLES
    lock,              \* Mutex: the thread holding it, 0 when unlocked
    poisoned,          \* Mutex: poisoned by a panic under the lock
    pc,                \* per thread: the call in progress and its stage
    guards,            \* the SmartId values: id, we_own_id, the owning thread
    concur,            \* history, per thread with an allocate_id call in progress:
                       \* the ids other allocate_id calls returned meanwhile, and
                       \* those of them a guard drop has freed since
    todo               \* the BTreeSet calls that the body running under the lock
                       \* has still to make on IdManager.free_ids

vars == <<free_ids, reuse_policy, next_to_allocate, min_id, max_id,
          op, args, ret, result, allocated, refreed, phase,
          lock, poisoned, pc, guards, concur, todo>>

mgrVars == <<free_ids, reuse_policy, next_to_allocate, min_id, max_id>>

tsVars == <<lock, poisoned, pc, guards, concur, todo>>

\* ------------------------------------------------------------------------
\* IdManager (id_manager.rs)
\* ------------------------------------------------------------------------
\* the bounded ranges a manager is created over: they touch the type's MIN
\* and MAX or leave a margin, and include a range of one id
Ranges == {<<lo, hi>> \in T \X T :
              /\ lo \in {TMIN, TMIN + 1}
              /\ hi \in {lo, TMAX - 1, TMAX}
              /\ lo <= hi}

\* variant: only min_id is made free
new_limited_range_min_only(lo, hi) == insert_value(<<>>, lo).set

\* new_limited_range: free_ids after insert_interval(min_id, max_id)
new_limited_range(lo, hi) == insert_interval(<<>>, lo, hi).set

\* variant: can_allocate does not look at the free set
can_allocate_ignores_set(fs) == TRUE

can_allocate(fs) == ~is_empty(fs)

\* variant: the step does not wrap at max_id
increment_id_no_wrap(id, lo, hi) == Add1(id)

increment_id(id, lo, hi) == IF id = hi THEN lo ELSE Add1(id)

\* the cursor after k steps of increment_id
RECURSIVE CursorAfter(_, _, _, _)
CursorAfter(cur, lo, hi, k) ==
    IF k = 0 THEN cur ELSE increment_id(CursorAfter(cur, lo, hi, k - 1), lo, hi)

\* variant: the candidates stop at max_id, the walk does not wrap
LoopHits_no_wrap(fs, cur, lo, hi) ==
    {k \in 0..(hi - cur) : remove_value(fs, CursorAfter(cur, lo, hi, k)).ok}

\* the numbers k of cursor steps after which remove_value(next_to_allocate)
\* succeeds, among the first hi-lo+1 candidates
LoopHits(fs, cur, lo, hi) ==
    {k \in 0..(hi - lo) : remove_value(fs, CursorAfter(cur, lo, hi, k)).ok}

\* variant: the cursor is left on the returned id
LoopFound_no_advance(fs, id, lo, hi) ==
    [result |-> "Ok", id |-> id, free |-> remove_value(fs, id).set, next |-> id]

\* the pass of the loop in which remove_value(next_to_allocate) succeeds
LoopFound(fs, id, lo, hi) ==
    [result |-> "Ok", id |-> id, free |-> remove_value(fs, id).set,
     next |-> increment_id(id, lo, hi)]

\* variant: the last candidate of the walk that is free is returned, the
\* free ids before it are passed over
LoopResult_takes_last(fs, cur, lo, hi, hits) ==
    IF hits = {}
    THEN [result |-> "Hang", id |-> NoId, free |-> fs, next |-> cur]
    ELSE LoopFound(fs, CursorAfter(cur, lo, hi, SetMax(hits)), lo, hi)

LoopResult(fs, cur, lo, hi, hits) ==
    IF hits = {}
    THEN [result |-> "Hang", id |-> NoId, free |-> fs, next |-> cur]
    ELSE LoopFound(fs, CursorAfter(cur, lo, hi, SetMin(hits)), lo, hi)

\* the loop of allocate under ReuseSlow: the candidates are tried in cursor
\* order and the first whose remove_value succeeds is returned, the cursor
\* stepping once more.  A failed remove_value leaves the set as it was, so
\* after hi-lo+1 failed candidates the loop is back in the state it started
\* from and runs for ever: "Hang".
AllocateLoop(fs, cur, lo, hi) == LoopResult(fs, cur, lo, hi, LoopHits(fs, cur, lo, hi))

\* variant: the id returned is left in the free set
AllocateFast_keeps_free(fs, cur, r) ==
    [result |-> "Ok", id |-> r.value, free |-> fs, next |-> cur]

\* variant: the cursor is moved to the id returned
AllocateFast_moves_cursor(fs, cur, r) ==
    [result |-> "Ok", id |-> r.value, free |-> r.set, next |-> r.value]

AllocateFast(fs, cur, r) ==
    [result |-> "Ok", id |-> r.value, free |-> r.set, next |-> cur]

\* variant: the policy is not consulted, every allocate takes the first value
allocate_ignores_policy(fs, policy, cur, lo, hi) ==
    IF is_empty(fs)
    THEN [result |-> "PoolExhausted", id |-> NoId, free |-> fs, next |-> cur]
    ELSE AllocateFast(fs, cur, remove_first_value(fs))

allocate(fs, policy, cur, lo, hi) ==
    IF is_empty(fs)
    THEN [result |-> "PoolExhausted", id |-> NoId, free |-> fs, next |-> cur]
    ELSE IF policy = ReuseFast
    THEN AllocateFast(fs, cur, remove_first_value(fs))
    ELSE AllocateLoop(fs, cur, lo, hi)

\* variant: the bool of insert_value is not looked at
FreeResult_always_ok(fs, r) == [result |-> "Ok", free |-> r.set]

FreeResult(fs, r) ==
    IF r.ok THEN [result |-> "Ok", free |-> r.set]
    ELSE [result |-> "NotAllocated", free |-> fs]

free(fs, id) == FreeResult(fs, insert_value(fs, id))

\* variant: an id that remove_value does not find is reported as an error
mark_value_as_used_needs_free(fs, id, lo, hi) ==
    IF remove_value(fs, id).ok
    THEN [result |-> "Ok", free |-> remove_value(fs, id).set]
    ELSE [result |-> "OutOfRange", free |-> fs]

mark_value_as_used(fs, id, lo, hi) ==
    IF id < lo /\ id > hi
    THEN [result |-> "OutOfRange", free |-> fs]
    ELSE [result |-> "Ok", free |-> remove_value(fs, id).set]

mark_interval_as_used(fs, lower, upper, lo, hi) ==
    IF lower < lo /\ lower > hi
    THEN [result |-> "OutOfRange", free |-> fs]
    ELSE IF upper < lo /\ upper > hi
    THEN [result |-> "OutOfRange", free |-> fs]
    ELSE IF ~IntervalNewOk(lower, upper)
    THEN [result |-> "MalformedRange", free |-> fs]
    ELSE [result |-> "Ok", free |-> remove_interval(fs, lower, upper)]

\* ------------------------------------------------------------------------
\* The additions and subtractions of one.  For each operation, the operands
\* x of the `x + One::one()` and `x - One::one()` that the operation
\* evaluates on the given input, each under the tests that guard it in the
\* code.
\* ------------------------------------------------------------------------
Sum(x) == <<"+1", x>>

Diff(x) == <<"-1", x>>

\* Interval::extends_lower: value.upper + 1
extends_lower_arith(value) ==
    IF value.upper = TMAX THEN {} ELSE {Sum(value.upper)}

\* Interval::extends_upper: value.lower - 1
extends_upper_arith(value) ==
    IF value.lower = TMIN THEN {} ELSE {Diff(value.lower)}

\* insert: the adjacency tests made on the neighbours that exist
InsertBetweenArith(interval, intervals_after, intervals_before) ==
    IF intervals_after # <<>> /\ overlaps(RangeMin(intervals_after), interval)
    THEN {}
    ELSE IF intervals_before # <<>> /\ overlaps(RangeMax(intervals_before), interval)
    THEN {}
    ELSE IF intervals_after # <<>> /\ intervals_before # <<>>
    THEN extends_lower_arith(interval) \cup extends_upper_arith(interval)
    ELSE IF intervals_after # <<>>
    THEN extends_lower_arith(interval)
    ELSE IF intervals_before # <<>>
    THEN extends_upper_arith(interval)
    ELSE {}

insert_arith(s, interval) ==
    InsertBetweenArith(interval, RangeFromIncluded(s, interval),
                       RangeToExcluded(s, interval))

\* remove_first_value on a non-empty set: first_value + 1
remove_first_value_arith(s) ==
    IF s[1].lower # s[1].upper THEN {Sum(s[1].lower)} ELSE {}

\* remove_value on the outcome f of find: value - 1 and value + 1
SplitArith(v, f) ==
    IF f.some
    THEN (IF f.interval.lower < v THEN {Diff(v)} ELSE {})
         \cup (IF v < f.interval.upper THEN {Sum(v)} ELSE {})
    ELSE {}

remove_value_arith(s, v) == SplitArith(v, find(s, new_single_value_interval(v)))

\* one pass of the loop of remove_interval: lower - 1 and upper + 1
ScanArith(interval, lower, upper) ==
    (IF interval.lower < lower /\ interval.upper >= lower THEN {Diff(lower)} ELSE {})
    \cup (IF interval.upper > upper /\ interval.lower <= upper THEN {Sum(upper)} ELSE {})

remove_interval_arith(s, lower, upper) ==
    LET visit == RangeFromIncluded(s, Interval(TMIN, lower))
    IN  UNION {ScanArith(visit[i], lower, upper) : i \in DOMAIN visit}

\* variant: the cursor step adds one whatever the id
increment_id_arith_unguarded(id, lo, hi) == {Sum(id)}

\* increment_id: id + 1
increment_id_arith(id, lo, hi) == IF id = hi THEN {} ELSE {Sum(id)}

\* the passes of the loop of allocate, each on its candidate: up to the
\* first hit, or all of them when it spins
LoopArith(fs, cur, lo, hi, hits) ==
    UNION {remove_value_arith(fs, CursorAfter(cur, lo, hi, k))
           \cup increment_id_arith(CursorAfter(cur, lo, hi, k), lo, hi) :
              k \in 0..(IF hits = {} THEN hi - lo ELSE SetMin(hits))}

allocate_arith(fs, policy, cur, lo, hi) ==
    IF is_empty(fs) THEN {}
    ELSE IF policy = ReuseFast THEN remove_first_value_arith(fs)
    ELSE LoopArith(fs, cur, lo, hi, LoopHits(fs, cur, lo, hi))

\* ------------------------------------------------------------------------
\* Specification of one IdManager driven by arbitrary calls
\* ------------------------------------------------------------------------
\* history bookkeeping: ids of the range [lo,hi] that left the free pool
Taken(alloc, ids, lo, hi) == alloc \cup (ids \cap (lo..hi))

NoRefreed == [id |-> NoId, stage |-> "none"]

\* no scenario is being played: the calls are arbitrary
NoScenario == [name |-> "any", n |-> 0]

\* ------------------------------------------------------------------------
\* ThreadSafeIdManager and SmartId (thread_safe_id_manager.rs, smart_id.rs)
\* ------------------------------------------------------------------------
NThreads == 2

MaxGuards == 2

Threads == 1..NThreads

\* the places of the SmartId values alive at a time, dealt to the threads in
\* turn: the SmartId in place g is a local of thread Owner(g)
GuardSlots == 1..MaxGuards

Owner(g) == ((g - 1) % NThreads) + 1

NoSlot == 0

\* a thread between calls, and a slot holding no SmartId
IdlePc == [stage |-> "idle", call |-> "none", g |-> NoSlot, a |-> 0, b |-> 0,
           ret |-> NoId, result |-> "none"]

NoGuard == [live |-> FALSE, id |-> NoId, we_own_id |-> FALSE]

NoConcur == [ret |-> {}, freed |-> {}]

\* the wrapper before any thread has called it
TSInitIdle ==
    /\ lock = 0
    /\ poisoned = FALSE
    /\ pc = [t \in Threads |-> IdlePc]
    /\ guards = [g \in GuardSlots |-> NoGuard]
    /\ concur = [t \in Threads |-> NoConcur]
    /\ todo = <<>>

Init ==
    /\ reuse_policy \in ReusePolicy
    /\ \E r \in Ranges :
          /\ min_id = r[1]
          /\ max_id = r[2]
          /\ free_ids = new_limited_range(r[1], r[2])
          /\ next_to_allocate = r[1]
    /\ op = "new"
    /\ args = <<>>
    /\ ret = NoId
    /\ result = "Ok"
    /\ allocated = {}
    /\ refreed = NoRefreed
    /\ phase = NoScenario
    /\ TSInitIdle

\* a manager whose allocate is spinning in its loop takes no further call
Running == result # "Hang"

Allocate ==
    /\ Running
    /\ \E r \in {allocate(free_ids, reuse_policy, next_to_allocate, min_id, max_id)} :
           /\ free_ids' = r.free
           /\ next_to_allocate' = r.next
           /\ ret' = r.id
           /\ result' = r.result
           /\ allocated' = IF r.result = "Ok" THEN Taken(allocated, {r.id}, min_id, max_id)
                           ELSE allocated
    /\ op' = "allocate"
    /\ args' = <<>>
    /\ refreed' = IF refreed.stage = "freed" THEN [refreed EXCEPT !.stage = "next"]
                  ELSE NoRefreed
    /\ UNCHANGED <<reuse_policy, min_id, max_id, phase>>
    /\ UNCHANGED tsVars

Free(id) ==
    /\ Running
    /\ \E r \in {free(free_ids, id)} :
           /\ free_ids' = r.free
           /\ result' = r.result
           /\ allocated' = IF r.result = "Ok" THEN allocated \ {id} ELSE allocated
           /\ refreed' = IF r.result = "Ok" /\ op = "allocate" /\ result = "Ok" /\ ret = id
                         THEN [id |-> id, stage |-> "freed"] ELSE NoRefreed
    /\ op' = "free"
    /\ args' = <<id>>
    /\ ret' = NoId
    /\ UNCHANGED <<reuse_policy, next_to_allocate, min_id, max_id, phase>>
    /\ UNCHANGED tsVars

MarkValueAsUsed(id) ==
    /\ Running
    /\ \E r \in {mark_value_as_used(free_ids, id, min_id, max_id)} :
           /\ free_ids' = r.free
           /\ result' = r.result
           /\ allocated' = IF r.result = "Ok" THEN Taken(allocated, {id}, min_id, max_id)
                           ELSE allocated
    /\ op' = "mark_value_as_used"
    /\ args' = <<id>>
    /\ ret' = NoId
    /\ refreed' = NoRefreed
    /\ UNCHANGED <<reuse_policy, next_to_allocate, min_id, max_id, phase>>
    /\ UNCHANGED tsVars

MarkIntervalAsUsed(lower, upper) ==
    /\ Running
    /\ \E r \in {mark_interval_as_used(free_ids, lower, upper, min_id, max_id)} :
           /\ free_ids' = r.free
           /\ result' = r.result
           /\ allocated' = IF r.result = "Ok"
                           THEN Taken(allocated, lower..upper, min_id, max_id)
                           ELSE allocated
    /\ op' = "mark_interval_as_used"
    /\ args' = <<lower, upper>>
    /\ ret' = NoId
    /\ refreed' = NoRefreed
    /\ UNCHANGED <<reuse_policy, next_to_allocate, min_id, max_id, phase>>
    /\ UNCHANGED tsVars

Next ==
    \/ Allocate
    \/ \E id \in T : Free(id)
    \/ \E id \in T : MarkValueAsUsed(id)
    \/ \E lower \in T, upper \in T : MarkIntervalAsUsed(lower, upper)

Spec == Init /\ [][Next]_vars

\* ------------------------------------------------------------------------
\* Specification of one Intervals value, initially empty, driven by
\* arbitrary calls of its public operations (free_ids is that value; the
\* manager fields around it stay fixed)
\* ------------------------------------------------------------------------
InitIv ==
    /\ free_ids = <<>>
    /\ reuse_policy = ReuseFast
    /\ min_id = TMIN
    /\ max_id = TMAX
    /\ next_to_allocate = TMIN
    /\ op = "new"
    /\ args = <<>>
    /\ ret = NoId
    /\ result = "Ok"
    /\ allocated = {}
    /\ refreed = NoRefreed
    /\ phase = NoScenario
    /\ TSInitIdle

IvFixed ==
    UNCHANGED <<reuse_policy, next_to_allocate, min_id, max_id, allocated, refreed>>

\* history bookkeeping: this call repeats the previous one, which returned
Repeated == [name |-> "repeat", n |-> 2]

IvFrame == IvFixed /\ phase' = NoScenario

BoolResult(b) == IF b THEN "true" ELSE "false"

IvInsertInterval(lower, upper) ==
    /\ IF IntervalNewOk(lower, upper)
       THEN \E r \in {insert_interval(free_ids, lower, upper)} :
               /\ free_ids' = r.set
               /\ result' = BoolResult(r.ok)
       ELSE /\ free_ids' = free_ids
            /\ result' = "MalformedRange"
    /\ op' = "insert_interval"
    /\ args' = <<lower, upper>>
    /\ ret' = NoId
    /\ IvFrame
    /\ UNCHANGED tsVars

IvInsertValue(value) ==
    /\ \E r \in {insert_value(free_ids, value)} :
           /\ free_ids' = r.set
           /\ result' = BoolResult(r.ok)
    /\ op' = "insert_value"
    /\ args' = <<value>>
    /\ ret' = NoId
    /\ IvFrame
    /\ UNCHANGED tsVars

IvRemoveFirstInterval ==
    /\ IF is_empty(free_ids)
       THEN /\ free_ids' = free_ids
            /\ result' = "EmptyPool"
            /\ ret' = NoId
       ELSE \E r \in {remove_first_interval(free_ids)} :
               /\ free_ids' = r.set
               /\ result' = "Ok"
               /\ ret' = r.interval.lower
    /\ op' = "remove_first_interval"
    /\ args' = <<>>
    /\ IvFrame
    /\ UNCHANGED tsVars

IvRemoveFirstValue ==
    /\ IF is_empty(free_ids)
       THEN /\ free_ids' = free_ids
            /\ result' = "EmptyPool"
            /\ ret' = NoId
       ELSE \E r \in {remove_first_value(free_ids)} :
               /\ free_ids' = r.set
               /\ result' = "Ok"
               /\ ret' = r.value
    /\ op' = "remove_first_value"
    /\ args' = <<>>
    /\ IvFrame
    /\ UNCHANGED tsVars

IvRemoveValue(value) ==
    /\ \E r \in {remove_value(free_ids, value)} :
           /\ free_ids' = r.set
           /\ result' = BoolResult(r.ok)
    /\ op' = "remove_value"
    /\ args' = <<value>>
    /\ ret' = NoId
    /\ IvFrame
    /\ UNCHANGED tsVars

IvRemoveInterval(lower, upper) ==
    /\ IF IntervalNewOk(lower, upper)
       THEN /\ free_ids' = remove_interval(free_ids, lower, upper)
            /\ result' = "Ok"
       ELSE /\ free_ids' = free_ids
            /\ result' = "MalformedRange"
    /\ op' = "remove_interval"
    /\ args' = <<lower, upper>>
    /\ ret' = NoId
    /\ phase' = IF op = "remove_interval" /\ args = <<lower, upper>> /\ result = "Ok"
                THEN Repeated ELSE NoScenario
    /\ IvFixed
    /\ UNCHANGED tsVars

IvDump ==
    /\ result' = dump(free_ids)
    /\ free_ids' = free_ids
    /\ op' = "dump"
    /\ args' = <<>>
    /\ ret' = NoId
    /\ IvFrame
    /\ UNCHANGED tsVars

NextIv ==
    \/ \E lower \in T, upper \in T : IvInsertInterval(lower, upper)
    \/ \E value \in T : IvInsertValue(value)
    \/ IvRemoveFirstInterval
    \/ IvRemoveFirstValue
    \/ \E value \in T : IvRemoveValue(value)
    \/ \E lower \in T, upper \in T : IvRemoveInterval(lower, upper)
    \/ IvDump

SpecIv == InitIv /\ [][NextIv]_vars

\* ------------------------------------------------------------------------
\* Specification of the allocate-all-and-wrap scenario of the tests: a new
\* ReuseSlow manager over a bounded range; max-min+1 allocate calls ("fill");
\* then frees of ids of the range; then allocate calls again ("realloc")
\* ------------------------------------------------------------------------
InitWrap ==
    /\ Init
    /\ reuse_policy = ReuseSlow

WrapFill ==
    /\ phase.name \in {"any", "fill"}
    /\ op \in {"new", "allocate"}
    /\ phase.n < max_id - min_id + 1
    /\ \E r \in {allocate(free_ids, reuse_policy, next_to_allocate, min_id, max_id)} :
           /\ free_ids' = r.free
           /\ next_to_allocate' = r.next
           /\ ret' = r.id
           /\ result' = r.result
           /\ allocated' = IF r.result = "Ok" THEN Taken(allocated, {r.id}, min_id, max_id)
                           ELSE allocated
    /\ op' = "allocate"
    /\ args' = <<>>
    /\ refreed' = NoRefreed
    /\ phase' = [name |-> IF phase.n + 1 = max_id - min_id + 1 THEN "full" ELSE "fill",
                 n |-> phase.n + 1]
    /\ UNCHANGED <<reuse_policy, min_id, max_id>>
    /\ UNCHANGED tsVars

WrapFree(id) ==
    /\ phase.name \in {"full", "freeing"}
    /\ id \in min_id..max_id
    /\ \E r \in {free(free_ids, id)} :
           /\ free_ids' = r.free
           /\ result' = r.result
           /\ allocated' = IF r.result = "Ok" THEN allocated \ {id} ELSE allocated
    /\ op' = "free"
    /\ args' = <<id>>
    /\ ret' = NoId
    /\ refreed' = NoRefreed
    /\ phase' = [phase EXCEPT !.name = "freeing"]
    /\ UNCHANGED <<reuse_policy, next_to_allocate, min_id, max_id>>
    /\ UNCHANGED tsVars

WrapRealloc ==
    /\ phase.name \in {"freeing", "realloc"}
    /\ \E r \in {allocate(free_ids, reuse_policy, next_to_allocate, min_id, max_id)} :
           /\ free_ids' = r.free
           /\ next_to_allocate' = r.next
           /\ ret' = r.id
           /\ result' = r.result
           /\ allocated' = IF r.result = "Ok" THEN Taken(allocated, {r.id}, min_id, max_id)
                           ELSE allocated
    /\ op' = "allocate"
    /\ args' = <<>>
    /\ refreed' = NoRefreed
    /\ phase' = [phase EXCEPT !.name = "realloc"]
    /\ UNCHANGED <<reuse_policy, min_id, max_id>>
    /\ UNCHANGED tsVars

NextWrap ==
    \/ WrapFill
    \/ \E id \in T : WrapFree(id)
    \/ WrapRealloc

SpecWrap == InitWrap /\ [][NextWrap]_vars

\* ------------------------------------------------------------------------
\* Specification of one ThreadSafeIdManager shared by NThreads threads.  A
\* call is three steps: the thread enters the call, takes the Mutex when it
\* is unlocked, and runs the body under the lock, unlocking as it returns.
\* ------------------------------------------------------------------------
\* the ranges and arguments the threads use
TSRanges == {<<TMIN, TMIN + 1>>}

TSIds == {TMIN}

TSPairs == {<<TMIN + 1, TMIN + 1>>, <<TMIN + 1, TMIN>>}

InitTS ==
    /\ reuse_policy \in ReusePolicy
    /\ \E r \in TSRanges :
          /\ min_id = r[1]
          /\ max_id = r[2]
          /\ free_ids = new_limited_range(r[1], r[2])
          /\ next_to_allocate = r[1]
    /\ op = "new"
    /\ args = <<>>
    /\ ret = NoId
    /\ result = "Ok"
    /\ allocated = {}
    /\ refreed = NoRefreed
    /\ phase = NoScenario
    /\ TSInitIdle

\* the calls thread t can make: the wrapper's public methods with their
\* arguments, and allocate_id into, release of and drop of a SmartId of t
Calls(t) ==
    {<<call, NoSlot, 0, 0>> : call \in {"dump", "can_allocate"}}
    \cup {<<"mark_value_as_used", NoSlot, id, 0>> : id \in TSIds}
    \cup {<<"mark_interval_as_used", NoSlot, p[1], p[2]>> : p \in TSPairs}
    \cup {<<call, g, 0, 0>> : call \in {"allocate_id", "release", "drop"},
                              g \in {h \in GuardSlots : Owner(h) = t}}

\* release needs a SmartId the thread still holds, drop a live one, and
\* allocate_id yields a new one
CallOk(call, g) ==
    \/ call \in {"dump", "can_allocate", "mark_value_as_used", "mark_interval_as_used"}
    \/ call = "allocate_id" /\ ~guards[g].live
    \/ call = "release" /\ guards[g].live /\ guards[g].we_own_id
    \/ call = "drop" /\ guards[g].live

TSFrameMgr ==
    UNCHANGED <<free_ids, reuse_policy, next_to_allocate, min_id, max_id, allocated,
                refreed, phase>>

TSFrameLast == UNCHANGED <<op, args, ret, result, todo>>

\* thread t enters a call
Call(t, call, g, a, b) ==
    /\ pc[t].stage = "idle"
    /\ CallOk(call, g)
    /\ pc' = [pc EXCEPT ![t] = [stage |-> "waiting", call |-> call, g |-> g,
                                a |-> a, b |-> b, ret |-> NoId, result |-> "none"]]
    /\ concur' = [concur EXCEPT ![t] = NoConcur]
    /\ UNCHANGED <<lock, poisoned, guards>>
    /\ TSFrameMgr
    /\ TSFrameLast

\* the SmartIds thread t drops while it unwinds from a panic: all it holds,
\* but the one whose drop is the panicking call
Unwound(t) ==
    {g \in GuardSlots : /\ guards[g].live
                        /\ Owner(g) = t
                        /\ ~(pc[t].call = "drop" /\ g = pc[t].g)}

\* a panic of thread t with message msg.  The Mutex is poisoned by then, so
\* the drop of a SmartId during the unwinding panics again on lock().unwrap()
\* before it frees anything, and a panic while unwinding aborts the process.
PanicPc(t, msg) ==
    IF Unwound(t) # {}
    THEN [u \in Threads |-> IF u = t
                            THEN [pc[t] EXCEPT !.stage = "panicked", !.result = msg]
                            ELSE [IdlePc EXCEPT !.stage = "aborted"]]
    ELSE [pc EXCEPT ![t].stage = "panicked", ![t].result = msg]

PanicGuards(t) ==
    [g \in GuardSlots |-> IF guards[g].live /\ Owner(g) = t THEN NoGuard
                          ELSE guards[g]]

\* a lock() that does not wait for the Mutex to be free
Acquire_without_waiting(t) ==
    /\ pc[t].stage = "waiting"
    /\ pc' = [pc EXCEPT ![t].stage = "locked"]
    /\ lock' = t
    /\ UNCHANGED <<poisoned, concur, guards>>
    /\ TSFrameMgr
    /\ TSFrameLast

\* manager.lock().unwrap(): blocks while the Mutex is held, panics when it
\* is poisoned
Acquire(t) ==
    /\ pc[t].stage = "waiting"
    /\ lock = 0
    /\ IF poisoned
       THEN /\ pc' = PanicPc(t, "Poisoned")
            /\ guards' = PanicGuards(t)
            /\ lock' = lock
       ELSE /\ pc' = [pc EXCEPT ![t].stage = "locked"]
            /\ lock' = t
            /\ UNCHANGED guards
    /\ UNCHANGED <<poisoned, concur>>
    /\ TSFrameMgr
    /\ TSFrameLast

Holds(t, call) == pc[t].stage = "locked" /\ pc[t].call = call /\ lock = t

\* the call of thread t returns id (NoId for none) with the given result
Return(t, id, res) ==
    [pc EXCEPT ![t] = [IdlePc EXCEPT !.ret = id, !.result = res]]

\* a dump or can_allocate that returns with the lock still held
BodyQuery_keeps_lock(t) ==
    /\ Holds(t, "dump") \/ Holds(t, "can_allocate")
    /\ pc' = Return(t, NoId, IF pc[t].call = "can_allocate"
                             THEN BoolResult(can_allocate(free_ids)) ELSE "Ok")
    /\ lock' = lock
    /\ UNCHANGED <<poisoned, guards, concur>>
    /\ TSFrameMgr
    /\ TSFrameLast

\* dump and can_allocate: read under the lock
BodyQuery(t) ==
    /\ Holds(t, "dump") \/ Holds(t, "can_allocate")
    /\ pc' = Return(t, NoId, IF pc[t].call = "can_allocate"
                             THEN BoolResult(can_allocate(free_ids)) ELSE "Ok")
    /\ lock' = 0
    /\ UNCHANGED <<poisoned, guards, concur>>
    /\ TSFrameMgr
    /\ TSFrameLast

\* the ids returned by t's allocate_id enter the history of the other
\* allocate_id calls in progress
ConcurAfterAllocate(t, id) ==
    [u \in Threads |->
        IF u # t /\ pc[u].call = "allocate_id" /\ pc[u].stage \in {"waiting", "locked"}
        THEN [ret |-> concur[u].ret \cup {id}, freed |-> concur[u].freed \ {id}]
        ELSE concur[u]]

ConcurAfterFree(id) ==
    [u \in Threads |->
        IF id \in concur[u].ret
        THEN [concur[u] EXCEPT !.freed = concur[u].freed \cup {id}]
        ELSE concur[u]]

\* SmartId::new under the lock: panics when nothing can be allocated
BodyAllocateId(t) ==
    /\ Holds(t, "allocate_id")
    /\ lock' = 0
    /\ IF ~can_allocate(free_ids)
       THEN /\ poisoned' = TRUE
            /\ pc' = PanicPc(t, "PoolExhausted")
            /\ guards' = PanicGuards(t)
            /\ UNCHANGED <<free_ids, next_to_allocate, allocated, concur>>
       ELSE \E r \in {allocate(free_ids, reuse_policy, next_to_allocate, min_id, max_id)} :
               /\ free_ids' = r.free
               /\ next_to_allocate' = r.next
               /\ allocated' = Taken(allocated, {r.id}, min_id, max_id)
               /\ guards' = [guards EXCEPT ![pc[t].g] =
                                [live |-> TRUE, id |-> r.id, we_own_id |-> TRUE]]
               /\ concur' = ConcurAfterAllocate(t, r.id)
               /\ pc' = Return(t, r.id, r.result)
               /\ UNCHANGED poisoned
    /\ UNCHANGED <<reuse_policy, min_id, max_id, refreed, phase>>
    /\ TSFrameLast

\* the end of a call whose body returned result res and no value
Finish(t, res) ==
    /\ lock' = 0
    /\ poisoned' = (poisoned \/ res # "Ok")
    /\ pc' = IF res = "Ok" THEN Return(t, NoId, "Ok") ELSE PanicPc(t, res)

BodyMarkValueAsUsed(t) ==
    /\ Holds(t, "mark_value_as_used")
    /\ \E r \in {mark_value_as_used(free_ids, pc[t].a, min_id, max_id)} :
           /\ free_ids' = r.free
           /\ allocated' = IF r.result = "Ok"
                           THEN Taken(allocated, {pc[t].a}, min_id, max_id)
                           ELSE allocated
           /\ guards' = IF r.result = "Ok" THEN guards ELSE PanicGuards(t)
           /\ Finish(t, r.result)
    /\ UNCHANGED <<reuse_policy, next_to_allocate, min_id, max_id, refreed, phase, concur>>
    /\ TSFrameLast

BodyMarkIntervalAsUsed(t) ==
    /\ Holds(t, "mark_interval_as_used")
    /\ \E r \in {mark_interval_as_used(free_ids, pc[t].a, pc[t].b, min_id, max_id)} :
           /\ free_ids' = r.free
           /\ allocated' = IF r.result = "Ok"
                           THEN Taken(allocated, pc[t].a..pc[t].b, min_id, max_id)
                           ELSE allocated
           /\ guards' = IF r.result = "Ok" THEN guards ELSE PanicGuards(t)
           /\ Finish(t, r.result)
    /\ UNCHANGED <<reuse_policy, next_to_allocate, min_id, max_id, refreed, phase, concur>>
    /\ TSFrameLast

\* SmartId::value
value(guard) == guard.id

\* a release that leaves we_own_id set
BodyRelease_keeps_ownership(t) ==
    /\ Holds(t, "release")
    /\ lock' = 0
    /\ guards' = guards
    /\ pc' = Return(t, guards[pc[t].g].id, "Ok")
    /\ UNCHANGED <<poisoned, concur>>
    /\ TSFrameMgr
    /\ TSFrameLast

\* SmartId::release under the lock
BodyRelease(t) ==
    /\ Holds(t, "release")
    /\ lock' = 0
    /\ guards' = [guards EXCEPT ![pc[t].g].we_own_id = FALSE]
    /\ pc' = Return(t, guards[pc[t].g].id, "Ok")
    /\ UNCHANGED <<poisoned, concur>>
    /\ TSFrameMgr
    /\ TSFrameLast

\* a drop that frees the id whether or not the SmartId owns it
BodyDrop_frees_released(t) ==
    /\ Holds(t, "drop")
    /\ \E r \in {free(free_ids, guards[pc[t].g].id)} :
           /\ free_ids' = r.free
           /\ allocated' = IF r.result = "Ok" THEN allocated \ {guards[pc[t].g].id}
                           ELSE allocated
           /\ concur' = IF r.result = "Ok" THEN ConcurAfterFree(guards[pc[t].g].id)
                        ELSE concur
           /\ guards' = IF r.result = "Ok" THEN [guards EXCEPT ![pc[t].g] = NoGuard]
                        ELSE PanicGuards(t)
           /\ Finish(t, r.result)
    /\ UNCHANGED <<reuse_policy, next_to_allocate, min_id, max_id, refreed, phase>>
    /\ TSFrameLast

\* Drop for SmartId under the lock: frees the id if we_own_id
BodyDrop(t) ==
    /\ Holds(t, "drop")
    /\ IF guards[pc[t].g].we_own_id
       THEN \E r \in {free(free_ids, guards[pc[t].g].id)} :
               /\ free_ids' = r.free
               /\ allocated' = IF r.result = "Ok" THEN allocated \ {guards[pc[t].g].id}
                               ELSE allocated
               /\ concur' = IF r.result = "Ok" THEN ConcurAfterFree(guards[pc[t].g].id)
                            ELSE concur
               /\ guards' = IF r.result = "Ok" THEN [guards EXCEPT ![pc[t].g] = NoGuard]
                            ELSE PanicGuards(t)
               /\ Finish(t, r.result)
       ELSE /\ guards' = [guards EXCEPT ![pc[t].g] = NoGuard]
            /\ Finish(t, "Ok")
            /\ UNCHANGED <<free_ids, allocated, concur>>
    /\ UNCHANGED <<reuse_policy, next_to_allocate, min_id, max_id, refreed, phase>>
    /\ TSFrameLast

NextTS ==
    \E t \in Threads :
        \/ \E c \in Calls(t) : Call(t, c[1], c[2], c[3], c[4])
        \/ Acquire(t)
        \/ BodyQuery(t)
        \/ BodyAllocateId(t)
        \/ BodyMarkValueAsUsed(t)
        \/ BodyMarkIntervalAsUsed(t)
        \/ BodyRelease(t)
        \/ BodyDrop(t)

SpecTS == InitTS /\ [][NextTS]_vars

\* ------------------------------------------------------------------------
\* SpecSteps: the wrapper with the bodies of the mutating calls taken one
\* BTreeSet call at a time.  free_ids is the BTreeSet as it stands between
\* two of these calls, so that a reader that got in without the lock would
\* see the intervals half way through a split or a merge.
\* ------------------------------------------------------------------------
BTreeCall(name, key) == [call |-> name, key |-> key]

ApplyCall(s, c) ==
    IF c.call = "insert" THEN BTreeInsert(s, c.key) ELSE BTreeRemove(s, c.key)

\* remove_first_value on a non-empty set: the first interval is removed,
\* then what is left of it is inserted
remove_first_value_calls(s) ==
    <<BTreeCall("remove", s[1])>>
    \o (IF s[1].lower # s[1].upper
        THEN <<BTreeCall("insert", Interval(Add1(s[1].lower), s[1].upper))>>
        ELSE <<>>)

\* remove_value on the outcome f of find: the two remainders are inserted,
\* then the interval found is removed
SplitCalls(v, f) ==
    IF f.some
    THEN (IF f.interval.lower < v
          THEN <<BTreeCall("insert", Interval(f.interval.lower, Sub1(v)))>>
          ELSE <<>>)
         \o (IF v < f.interval.upper
             THEN <<BTreeCall("insert", Interval(Add1(v), f.interval.upper))>>
             ELSE <<>>)
         \o <<BTreeCall("remove", f.interval)>>
    ELSE <<>>

remove_value_calls(s, v) ==
    SplitCalls(v, find(s, new_single_value_interval(v)))

\* insert_or_join_intervals, insert_or_merge_with_next and
\* insert_or_merge_with_prev: next_extends is next.extends_lower(&interval)
\* where there is a next, prev_extends is prev.extends_upper(&interval)
\* where there is a prev
MergeCalls(interval, next, prev, next_extends, prev_extends) ==
    IF next_extends /\ prev_extends
    THEN <<BTreeCall("remove", prev), BTreeCall("remove", next),
           BTreeCall("insert", Interval(prev.lower, next.upper))>>
    ELSE IF next_extends
    THEN <<BTreeCall("remove", next),
           BTreeCall("insert", Interval(interval.lower, next.upper))>>
    ELSE IF prev_extends
    THEN <<BTreeCall("remove", prev),
           BTreeCall("insert", Interval(prev.lower, interval.upper))>>
    ELSE <<BTreeCall("insert", interval)>>

\* insert, when it returns true
InsertBetweenCalls(interval, intervals_after, intervals_before) ==
    IF intervals_after # <<>> /\ intervals_before # <<>>
    THEN MergeCalls(interval, RangeMin(intervals_after), RangeMax(intervals_before),
                    extends_lower(RangeMin(intervals_after), interval),
                    extends_upper(RangeMax(intervals_before), interval))
    ELSE IF intervals_after # <<>>
    THEN MergeCalls(interval, RangeMin(intervals_after), interval,
                    extends_lower(RangeMin(intervals_after), interval), FALSE)
    ELSE IF intervals_before # <<>>
    THEN MergeCalls(interval, interval, RangeMax(intervals_before),
                    FALSE, extends_upper(RangeMax(intervals_before), interval))
    ELSE <<BTreeCall("insert", interval)>>

insert_calls(s, interval) ==
    InsertBetweenCalls(interval, RangeFromIncluded(s, interval),
                       RangeToExcluded(s, interval))

\* IdManager::allocate with the outcome r: remove_first_value under
\* ReuseFast, the remove_value of the loop that succeeds under ReuseSlow
allocate_calls(fs, policy, r) ==
    IF policy = ReuseFast THEN remove_first_value_calls(fs)
    ELSE remove_value_calls(fs, r.id)

InitSteps ==
    /\ reuse_policy \in ReusePolicy
    /\ \E r \in {<<TMIN, TMIN + 2>>} :
          /\ min_id = r[1]
          /\ max_id = r[2]
          /\ free_ids = new_limited_range(r[1], r[2])
          /\ next_to_allocate = r[1]
    /\ op = "new"
    /\ args = <<>>
    /\ ret = NoId
    /\ result = "Ok"
    /\ allocated = {}
    /\ refreed = NoRefreed
    /\ phase = NoScenario
    /\ TSInitIdle

\* the calls of thread t: the two readers, mark_value_as_used, allocate_id
\* into and drop of a SmartId of t
StepCalls(t) ==
    {<<call, NoSlot, 0>> : call \in {"dump", "can_allocate"}}
    \cup {<<"mark_value_as_used", NoSlot, id>> : id \in {TMIN + 1}}
    \cup {<<call, g, 0>> : call \in {"allocate_id", "drop"},
                           g \in {h \in GuardSlots : Owner(h) = t}}

Runs(t) == pc[t].stage = "running" /\ lock = t

StepFrame == UNCHANGED <<reuse_policy, min_id, max_id, refreed, phase, concur>>

\* the body panics before it has touched the intervals
BodyPanics(t, msg) ==
    /\ lock' = 0
    /\ poisoned' = TRUE
    /\ pc' = PanicPc(t, msg)
    /\ guards' = PanicGuards(t)
    /\ UNCHANGED <<free_ids, next_to_allocate, allocated, todo>>

\* the body goes on to the BTreeSet calls it has to make
BodyRuns(t, id, calls) ==
    /\ pc' = [pc EXCEPT ![t].stage = "running", ![t].ret = id]
    /\ todo' = calls
    /\ UNCHANGED <<lock, poisoned, guards, free_ids, next_to_allocate, allocated>>

\* SmartId::new after the lock is taken: can_allocate, then allocate up to
\* its first BTreeSet call
BeginAllocateId(t) ==
    /\ Holds(t, "allocate_id")
    /\ \E r \in {allocate(free_ids, reuse_policy, next_to_allocate, min_id, max_id)} :
          /\ r.result # "Hang"
          /\ IF r.result = "Ok"
             THEN BodyRuns(t, r.id, allocate_calls(free_ids, reuse_policy, r))
             ELSE BodyPanics(t, r.result)
    /\ StepFrame
    /\ UNCHANGED <<op, args, ret, result>>

\* Drop for SmartId after the lock is taken: free up to its first BTreeSet call
BeginDrop(t) ==
    /\ Holds(t, "drop")
    /\ IF guards[pc[t].g].we_own_id
       THEN \E r \in {free(free_ids, guards[pc[t].g].id)} :
               IF r.result = "Ok"
               THEN BodyRuns(t, NoId,
                             insert_calls(free_ids,
                                          new_single_value_interval(guards[pc[t].g].id)))
               ELSE BodyPanics(t, r.result)
       ELSE BodyRuns(t, NoId, <<>>)
    /\ StepFrame
    /\ UNCHANGED <<op, args, ret, result>>

BeginMarkValueAsUsed(t) ==
    /\ Holds(t, "mark_value_as_used")
    /\ \E r \in {mark_value_as_used(free_ids, pc[t].a, min_id, max_id)} :
          IF r.result = "Ok"
          THEN BodyRuns(t, NoId, remove_value_calls(free_ids, pc[t].a))
          ELSE BodyPanics(t, r.result)
    /\ StepFrame
    /\ UNCHANGED <<op, args, ret, result>>

\* one BTreeSet::insert or BTreeSet::remove of the running body
BodyStep(t) ==
    /\ Runs(t)
    /\ todo # <<>>
    /\ free_ids' = ApplyCall(free_ids, Head(todo))
    /\ todo' = Tail(todo)
    /\ UNCHANGED <<lock, poisoned, pc, guards, next_to_allocate, allocated>>
    /\ StepFrame
    /\ UNCHANGED <<op, args, ret, result>>

\* the body has made its BTreeSet calls: it returns and the lock is released
BodyEnd(t) ==
    /\ Runs(t)
    /\ todo = <<>>
    /\ lock' = 0
    /\ pc' = Return(t, pc[t].ret, "Ok")
    /\ next_to_allocate' =
          IF pc[t].call = "allocate_id" /\ reuse_policy = ReuseSlow
          THEN increment_id(pc[t].ret, min_id, max_id)
          ELSE next_to_allocate
    /\ guards' =
          IF pc[t].call = "allocate_id"
          THEN [guards EXCEPT ![pc[t].g] =
                   [live |-> TRUE, id |-> pc[t].ret, we_own_id |-> TRUE]]
          ELSE IF pc[t].call = "drop"
          THEN [guards EXCEPT ![pc[t].g] = NoGuard]
          ELSE guards
    /\ allocated' =
          IF pc[t].call = "allocate_id"
          THEN Taken(allocated, {pc[t].ret}, min_id, max_id)
          ELSE IF pc[t].call = "drop"
          THEN IF guards[pc[t].g].we_own_id THEN allocated \ {guards[pc[t].g].id}
               ELSE allocated
          ELSE Taken(allocated, {pc[t].a}, min_id, max_id)
    /\ UNCHANGED <<free_ids, poisoned, todo>>
    /\ StepFrame
    /\ UNCHANGED <<op, args, ret, result>>

NextSteps ==
    \E t \in Threads :
        \/ \E c \in StepCalls(t) : Call(t, c[1], c[2], c[3], 0)
        \/ Acquire(t)
        \/ BodyQuery(t)
        \/ BeginAllocateId(t)
        \/ BeginDrop(t)
        \/ BeginMarkValueAsUsed(t)
        \/ BodyStep(t)
        \/ BodyEnd(t)

SpecSteps == InitSteps /\ [][NextSteps]_vars

\* the end of a body: thread t gives the lock back, by a return or by a panic
Unlock(t) ==
    /\ pc[t].stage = "locked"
    /\ lock = t
    /\ lock' = 0

\* the wrapper over a range of one id, for the properties of the lock
InitLock ==
    /\ reuse_policy \in ReusePolicy
    /\ \E r \in {<<TMIN, TMIN>>} :
          /\ min_id = r[1]
          /\ max_id = r[2]
          /\ free_ids = new_limited_range(r[1], r[2])
          /\ next_to_allocate = r[1]
    /\ op = "new"
    /\ args = <<>>
    /\ ret = NoId
    /\ result = "Ok"
    /\ allocated = {}
    /\ refreed = NoRefreed
    /\ phase = NoScenario
    /\ TSInitIdle

\* the wrapper under fair scheduling: a thread that holds the lock runs its
\* body to the end, and a thread that finds the Mutex free again and again
\* gets it
FairSpecLock ==
    /\ InitLock
    /\ [][NextTS]_vars
    /\ \A t \in Threads : SF_vars(Acquire(t)) /\ WF_lock(Unlock(t))

\* ------------------------------------------------------------------------
\* Reference notions used by the properties (set-level, independent of the
\* interval algorithms)
\* ------------------------------------------------------------------------
FreeSet == Values(free_ids)

IdRange == min_id..max_id

TypeOK ==
    /\ \A i \in DOMAIN free_ids : free_ids[i].lower \in T /\ free_ids[i].upper \in T
    /\ next_to_allocate \in T
    /\ ret \in T \cup {NoId}
    /\ allocated \subseteq T
    /\ refreed.id \in T \cup {NoId}

\* the cyclic walk over [min_id,max_id], stated with modular arithmetic
RangeSize == max_id - min_id + 1

CyclicSucc(v) == min_id + ((v - min_id + 1) % RangeSize)

\* number of steps from the cursor c to the id v, walking upwards and wrapping
CyclicDist(c, v) == (v - c + RangeSize) % RangeSize

FreeInRange == FreeSet \cap IdRange

\* the free id of the range that the cyclic walk from c meets first
FirstFreeFrom(c) ==
    CHOOSE v \in FreeInRange :
        \A w \in FreeInRange : CyclicDist(c, v) <= CyclicDist(c, w)

AllocateReturned == op = "allocate" /\ result = "Ok"

\* ------------------------------------------------------------------------
\* Properties
\* ------------------------------------------------------------------------

\* C1: for both policies, an allocate() that returns yields an id that was in
\* the free set immediately before the call and is not in it afterwards, and
\* that id was not already taken (returned earlier and not freed since).
C1_AllocateTakesFreeId ==
    [][(op' = "allocate" /\ result' = "Ok")
          => /\ ret' \in FreeSet
             /\ ret' \notin FreeSet'
             /\ ret' \notin allocated]_vars

\* an allocate has returned an id while other ids were already taken, after
\* some id had been freed
C1_Witness ==
    /\ AllocateReturned
    /\ ret \notin FreeSet
    /\ Cardinality(allocated) >= 2
    /\ Len(free_ids) >= 2

\* C3: every id of [min_id,max_id] is either free or allocated, never both
\* and never neither; an id leaves the free set only by allocate or mark-used
\* and re-enters it only by free.
C3_Partition == \A v \in IdRange : (v \in FreeSet) <=> (v \notin allocated)

C3_Transitions ==
    \A v \in IdRange :
        /\ (v \in FreeSet /\ v \notin FreeSet')
              => op' \in {"allocate", "mark_value_as_used", "mark_interval_as_used"}
        /\ (v \notin FreeSet /\ v \in FreeSet') => op' = "free"

\* C3: at all times every id of [min_id,max_id] is either free or taken, never
\* both; an id leaves the free set only by allocate or a mark-used call and
\* re-enters it only by free.
C3_FreeXorAllocated == []C3_Partition /\ [][C3_Transitions]_vars

\* ids have gone Free -> Allocated -> Free -> Allocated, by both routes
C3_Witness ==
    /\ op = "free" /\ result = "Ok"
    /\ allocated # {}
    /\ FreeInRange # {}
    /\ Len(free_ids) >= 2

\* C5: every id of free_ids lies in [min_id,max_id].
C5_FreeWithinBounds == FreeSet \subseteq IdRange

\* C6: next_to_allocate lies in [min_id,max_id], is min_id in a new manager,
\* and the step from max_id yields min_id.
C6_CursorInRange ==
    /\ next_to_allocate \in IdRange
    /\ (op = "new" => next_to_allocate = min_id)
    /\ increment_id(max_id, min_id, max_id) = min_id
    /\ (AllocateReturned /\ reuse_policy = ReuseSlow /\ ret = max_id
          => next_to_allocate = min_id)

\* the cursor has stepped from max_id back to min_id
C6_Witness ==
    /\ AllocateReturned
    /\ reuse_policy = ReuseSlow
    /\ ret = max_id
    /\ min_id < max_id
    /\ next_to_allocate = min_id

\* C7: under ReuseFast, allocate() on a non-empty free set returns the
\* numerically smallest free id.
C7_FastReturnsSmallest ==
    [][(op' = "allocate" /\ reuse_policy = ReuseFast /\ FreeSet # {})
          => /\ result' = "Ok"
             /\ ret' = SetMin(FreeSet)]_vars

\* the smallest id was handed out from a fragmented free set
C7_Witness ==
    /\ AllocateReturned
    /\ reuse_policy = ReuseFast
    /\ Len(free_ids) >= 2
    /\ ret > min_id

\* C8: under ReuseSlow, allocate() returns the first free id met when walking
\* cyclically from next_to_allocate, and leaves next_to_allocate at the cyclic
\* successor of the returned id.
C8_SlowReturnsFirstFromCursor ==
    [][(op' = "allocate" /\ reuse_policy = ReuseSlow /\ FreeInRange # {})
          => /\ result' = "Ok"
             /\ ret' = FirstFreeFrom(next_to_allocate)
             /\ next_to_allocate' = CyclicSucc(ret')]_vars

\* the walk has wrapped past max_id and skipped a taken id
C8_Witness ==
    /\ AllocateReturned
    /\ reuse_policy = ReuseSlow
    /\ ret > min_id
    /\ ret < max_id
    /\ min_id \in allocated
    /\ max_id \in FreeSet
    /\ next_to_allocate = ret + 1

\* C9: under ReuseSlow an allocate() never returns x while another id of the
\* range is free at or cyclically after the cursor and before x; so after
\* allocate -> x, free(x), the next allocate does not return x again when
\* another id of the range is free.
C9_DelayedReuse ==
    [][(op' = "allocate" /\ result' = "Ok" /\ reuse_policy = ReuseSlow)
          => /\ \A y \in FreeInRange \ {ret'} :
                   ~(CyclicDist(next_to_allocate, y) < CyclicDist(next_to_allocate, ret'))
             /\ (refreed.stage = "freed" /\ FreeInRange \ {refreed.id} # {})
                   => ret' # refreed.id]_vars

\* allocate -> x, free(x), allocate has happened and gave another id
C9_Witness ==
    /\ AllocateReturned
    /\ reuse_policy = ReuseSlow
    /\ refreed.stage = "next"
    /\ ret # refreed.id
    /\ refreed.id \in FreeSet

\* C4: after any sequence of insert_interval, insert_value,
\* remove_first_interval, remove_first_value, remove_value and remove_interval
\* on an initially empty set, the stored intervals are well-formed
\* (lower <= upper), pairwise non-overlapping, and no two are adjacent.
WellFormed(s) == \A i \in DOMAIN s : s[i].lower <= s[i].upper

Disjoint(s) ==
    \A i, j \in DOMAIN s :
        i # j => (s[i].upper < s[j].lower \/ s[j].upper < s[i].lower)

NonAdjacent(s) == \A i, j \in DOMAIN s : i # j => s[i].upper + 1 # s[j].lower

\* C4: after any sequence of the Intervals operations on an initially empty
\* set the stored intervals are well-formed, pairwise disjoint and
\* non-adjacent.
C4_DisjointMaximal ==
    /\ WellFormed(free_ids)
    /\ Disjoint(free_ids)
    /\ NonAdjacent(free_ids)

\* a value was inserted next to a stored interval and merged into it, beside
\* another stored interval
C4_Witness ==
    /\ op = "insert_value"
    /\ result = "true"
    /\ Len(free_ids) >= 2
    /\ \E i \in DOMAIN free_ids :
          /\ free_ids[i].lower < free_ids[i].upper
          /\ args[1] = free_ids[i].upper

\* C10: a new ReuseSlow manager over [min,max] returns min, min+1, ..., max
\* in that order over max-min+1 allocate calls, each id once, and then
\* can_allocate() is false; after frees of ids of the range the next allocate
\* calls return the freed ids in ascending order, starting from the smallest.
C10_FillThenWrap ==
    [][/\ (phase.name \in {"any", "fill"} /\ op' = "allocate")
             => /\ result' = "Ok"
                /\ ret' = min_id + phase.n
                /\ ret' \notin allocated
       /\ (phase'.name = "full")
             => /\ phase'.n = max_id - min_id + 1
                /\ ~can_allocate(free_ids')
       /\ (phase.name \in {"freeing", "realloc"} /\ op' = "allocate" /\ FreeSet # {})
             => /\ result' = "Ok"
                /\ ret' = SetMin(FreeSet)]_vars

\* the range was filled, ids were freed, and a second freed id has been handed
\* out again while a larger freed id is still waiting
C10_Witness ==
    /\ phase.name = "realloc"
    /\ AllocateReturned
    /\ ret > min_id
    /\ min_id \in allocated
    /\ FreeSet # {}
    /\ \A v \in FreeSet : v > ret

\* ------------------------------------------------------------------------
\* Threads sharing one wrapper
\* ------------------------------------------------------------------------
LiveOwning(g) == guards[g].live /\ guards[g].we_own_id

GuardsUnique ==
    \A g \in GuardSlots, h \in GuardSlots :
        (g # h /\ LiveOwning(g) /\ LiveOwning(h)) => guards[g].id # guards[h].id

\* the step in which the allocate_id call of thread t returns
AllocateIdReturns(t) == Holds(t, "allocate_id") /\ pc'[t].stage = "idle"

ReturnsFreshOfConcurrent ==
    \A t \in Threads :
        AllocateIdReturns(t) => pc'[t].ret \notin concur[t].ret

ReturnsFreshUnlessFreed ==
    \A t \in Threads :
        AllocateIdReturns(t) =>
            (pc'[t].ret \in concur[t].ret => pc'[t].ret \in concur[t].freed)

\* C2 as stated: no two SmartIds that are alive and own their id hold the
\* same id, and an allocate_id call never returns an id that another
\* allocate_id call returned while it was in progress.
C2_ConcurrentNeverSame == []GuardsUnique /\ [][ReturnsFreshOfConcurrent]_vars

\* C2: no two SmartIds that are alive and own their id hold the same id, and
\* an allocate_id call returns an id that another allocate_id call returned
\* while it was in progress only if the SmartId of that other call was
\* dropped, still owning the id, in between.
C2_ConcurrentDistinctUnlessDropped == []GuardsUnique /\ [][ReturnsFreshUnlessFreed]_vars

\* two threads hold live owning SmartIds with different ids, the one of t
\* returned by a call during which the other thread's call returned
C2_Witness ==
    \E t \in Threads, g \in GuardSlots, h \in GuardSlots :
        /\ Owner(g) = t
        /\ Owner(h) # t
        /\ LiveOwning(g)
        /\ LiveOwning(h)
        /\ pc[t].stage = "idle"
        /\ pc[t].ret = guards[g].id
        /\ guards[h].id \in concur[t].ret
        /\ guards[g].id # guards[h].id

\* ------------------------------------------------------------------------
\* Errors and frame conditions of the IdManager calls
\* ------------------------------------------------------------------------
AllocateOnEmptyFails ==
    (op' = "allocate" /\ FreeSet = {})
        => /\ result' = "PoolExhausted"
           /\ ret' = NoId
           /\ free_ids' = free_ids
           /\ next_to_allocate' = next_to_allocate

\* C11: for both policies allocate() on an empty free set fails with the
\* pool-exhausted error and leaves free_ids and next_to_allocate as they
\* were; can_allocate() is true exactly when the free set is non-empty.
C11_ExhaustedFails ==
    /\ [](can_allocate(free_ids) <=> FreeSet # {})
    /\ [][AllocateOnEmptyFails]_vars

\* allocate() has just failed on an empty free set
C11_Witness ==
    /\ op = "allocate"
    /\ result = "PoolExhausted"
    /\ FreeSet = {}
    /\ ~can_allocate(free_ids)

\* C12: under ReuseSlow, whenever can_allocate() is true, the loop of
\* allocate() ends after at most max_id-min_id+1 cursor steps and returns an
\* id.
C12_ScanTerminates ==
    [][(op' = "allocate" /\ reuse_policy = ReuseSlow /\ can_allocate(free_ids))
          => /\ result' = "Ok"
             /\ CyclicDist(next_to_allocate, ret') + 1 <= RangeSize]_vars

\* C13: free(id) of an id that is in the free set fails with the
\* not-allocated error and leaves free_ids and next_to_allocate as they were.
C13_FreeOfFreeIdFails ==
    [][(op' = "free" /\ args'[1] \in FreeSet)
          => /\ result' = "NotAllocated"
             /\ free_ids' = free_ids
             /\ next_to_allocate' = next_to_allocate]_vars

\* a free of an id lying inside a stored interval has just failed, in a
\* manager that has handed out ids before
C13_Witness ==
    /\ op = "free"
    /\ result = "NotAllocated"
    /\ args[1] \in FreeSet
    /\ allocated # {}

\* C14: free(id) fails with the not-allocated error for every id that is not
\* currently allocated, an id outside [min_id,max_id] included, and does not
\* add such an id to the free set.
C14_FreeOfUnallocatedFails ==
    [][(op' = "free" /\ args'[1] \notin allocated)
          => /\ result' = "NotAllocated"
             /\ args'[1] \in FreeSet' <=> args'[1] \in FreeSet]_vars

MarkUsedOutside ==
    \/ op' = "mark_value_as_used" /\ args'[1] \notin IdRange
    \/ /\ op' = "mark_interval_as_used"
       /\ (args'[1] \notin IdRange \/ args'[2] \notin IdRange)

\* C15: mark_value_as_used(id) with id outside [min_id,max_id], and
\* mark_interval_as_used(lower,upper) with lower or upper outside it, fail
\* with the out-of-range error and leave the free set as it was.
C15_MarkUsedOutsideFails ==
    [][MarkUsedOutside => (result' = "OutOfRange" /\ free_ids' = free_ids)]_vars

MarkUsedOfUsed ==
    \/ op' = "mark_value_as_used" /\ args'[1] \notin FreeSet
    \/ /\ op' = "mark_interval_as_used"
       /\ args'[1] <= args'[2]
       /\ (args'[1]..args'[2]) \cap FreeSet = {}

\* C16: mark_value_as_used(id) of an id that is not free, and
\* mark_interval_as_used(lower,upper) of a range lower..upper none of whose
\* ids is free, return without error and leave free_ids and
\* next_to_allocate as they were.
C16_MarkUsedOfUsedIsNoOp ==
    [][MarkUsedOfUsed => /\ result' = "Ok"
                         /\ free_ids' = free_ids
                         /\ next_to_allocate' = next_to_allocate]_vars

\* a range of several ids, some of them taken and none free, has just been
\* marked used while other ids are free
C16_Witness ==
    /\ op = "mark_interval_as_used"
    /\ result = "Ok"
    /\ args[1] < args[2]
    /\ (args[1]..args[2]) \cap FreeSet = {}
    /\ (args[1]..args[2]) \cap allocated # {}
    /\ FreeSet # {}

\* ------------------------------------------------------------------------
\* remove_interval as a function of the stored set
\* ------------------------------------------------------------------------
RemovesExactly(lower, upper) ==
    \A r \in {remove_interval(free_ids, lower, upper)} :
        /\ Values(r) = FreeSet \ (lower..upper)
        /\ mark_interval_as_used(free_ids, lower, upper, min_id, max_id)
              = [result |-> "Ok", free |-> r]

\* C17: for any stored set and any lower <= upper, the values left by
\* remove_interval(lower,upper), and by mark_interval_as_used on top of it,
\* are exactly the previous values minus every v with lower <= v <= upper.
C17_RemoveIntervalExact ==
    /\ [](\A lower \in T, upper \in T : lower <= upper => RemovesExactly(lower, upper))
    /\ [][(op' = "remove_interval" /\ result' = "Ok")
             => FreeSet' = FreeSet \ (args'[1]..args'[2])]_vars

\* remove_interval has just cut a range of several ids out of the stored
\* set, leaving free ids right below and right above it
C17_Witness ==
    /\ op = "remove_interval"
    /\ result = "Ok"
    /\ args[1] < args[2]
    /\ args[1] - 1 \in FreeSet
    /\ args[2] + 1 \in FreeSet
    /\ (args[1]..args[2]) \cap FreeSet = {}

\* ------------------------------------------------------------------------
\* Round trips
\* ------------------------------------------------------------------------
FreeRestores(r) ==
    r.result = "Ok" => free(r.free, r.id) = [result |-> "Ok", free |-> free_ids]

\* C18: for both policies, in every reachable state with a non-empty free
\* set, id = allocate() immediately followed by free(id) leaves the stored
\* intervals identical to what they were before the allocate.
C18_AllocateFreeRoundTrip ==
    (Running /\ can_allocate(free_ids))
        => \A r \in {allocate(free_ids, reuse_policy, next_to_allocate, min_id, max_id)} :
               FreeRestores(r)

\* allocate() took an id out of the middle of an interval and free(id) has
\* just put it back
C18_Witness ==
    /\ op = "free"
    /\ result = "Ok"
    /\ refreed.stage = "freed"
    /\ refreed.id = args[1]
    /\ refreed.id - 1 \in FreeSet
    /\ refreed.id + 1 \in FreeSet
    /\ \E i \in DOMAIN free_ids :
           free_ids[i].lower < refreed.id /\ refreed.id < free_ids[i].upper

\* C19: for any stored set and any lower <= upper, remove_interval(lower,
\* upper) called twice in a row gives the same stored intervals as calling it
\* once: the second call leaves the set as the first left it.
C19_RemoveIntervalIdempotent ==
    /\ [](\A lower \in T, upper \in T :
              lower <= upper =>
                  \A r \in {remove_interval(free_ids, lower, upper)} :
                      remove_interval(r, lower, upper) = r)
    /\ [][(op' = "remove_interval" /\ phase' = Repeated /\ result' = "Ok")
             => free_ids' = free_ids]_vars

\* the same remove_interval call has just been made twice in a row, the
\* first having cut stored intervals on both sides of the range
C19_Witness ==
    /\ op = "remove_interval"
    /\ result = "Ok"
    /\ phase = Repeated
    /\ args[1] < args[2]
    /\ args[1] - 1 \in FreeSet
    /\ args[2] + 1 \in FreeSet

\* ------------------------------------------------------------------------
\* Construction
\* ------------------------------------------------------------------------
\* IdManager::new: the whole range of the type
new == new_limited_range(TMIN, TMAX)

\* C20: new_limited_range(policy,min,max) with min <= max yields a manager
\* whose free set is the single interval [min,max] and whose cursor is min;
\* new(policy) is the same with min = MIN and max = MAX of the type.
C20_NewIsFullRange ==
    /\ new = <<Interval(TMIN, TMAX)>>
    /\ op = "new" => /\ min_id <= max_id
                     /\ free_ids = <<Interval(min_id, max_id)>>
                     /\ next_to_allocate = min_id
                     /\ (min_id = TMIN /\ max_id = TMAX) => free_ids = new

\* a manager just made over a range of several ids that is not the whole type
C20_Witness ==
    /\ op = "new"
    /\ TMIN < min_id
    /\ min_id < max_id
    /\ max_id < TMAX
    /\ FreeSet = min_id..max_id

\* ------------------------------------------------------------------------
\* SmartId: drop and release
\* ------------------------------------------------------------------------
\* the step in which the call of thread t ends, by a return or by a panic
CallEnds(t, call) ==
    /\ pc[t].call = call
    /\ pc[t].stage \in {"waiting", "locked"}
    /\ pc'[t].stage \in {"idle", "panicked"}

DropFreesIffOwned(t) ==
    IF guards[pc[t].g].we_own_id
    THEN /\ guards[pc[t].g].id \notin FreeSet
         /\ FreeSet' = FreeSet \cup {guards[pc[t].g].id}
    ELSE free_ids' = free_ids

\* C21: when a SmartId is dropped its id is returned to the free set if and
\* only if the SmartId still owns it: the id of an owning one is free right
\* after the drop, the drop of a released one leaves the free set unchanged.
C21_DropFreesIffOwned ==
    [][\A t \in Threads : CallEnds(t, "drop") => DropFreesIffOwned(t)]_vars

\* the same, for the drops that return
C21_ReturningDropFreesIffOwned ==
    [][\A t \in Threads :
          (CallEnds(t, "drop") /\ pc'[t].stage = "idle") => DropFreesIffOwned(t)]_vars

\* a panic that ended in a second panic during the unwinding: the process
\* is gone
Aborted(t) == \A u \in Threads \ {t} : pc'[u].stage = "aborted"

ReleaseReturns(t) ==
    /\ pc'[t].ret = value(guards[pc[t].g])
    /\ pc'[t].result = "Ok"
    /\ guards'[pc[t].g] = [guards[pc[t].g] EXCEPT !.we_own_id = FALSE]
    /\ value(guards[pc[t].g]) \notin FreeSet'

ReleaseStep ==
    \A t \in Threads :
        CallEnds(t, "release") =>
            /\ free_ids' = free_ids
            /\ next_to_allocate' = next_to_allocate
            /\ IF pc'[t].stage = "idle" THEN ReleaseReturns(t) ELSE Aborted(t)

ReleasedNotFree ==
    \A g \in GuardSlots :
        (guards[g].live /\ ~guards[g].we_own_id) => value(guards[g]) \notin FreeSet

DropOfReleased ==
    \A t \in Threads :
        (CallEnds(t, "drop") /\ ~guards[pc[t].g].we_own_id) =>
            /\ value(guards[pc[t].g]) \notin FreeSet'
            /\ free_ids' = free_ids

AllocateIdFails(t, msg) ==
    /\ pc'[t].stage = "panicked"
    /\ pc'[t].result = msg
    /\ ~guards'[pc[t].g].live
    /\ free_ids' = free_ids
    /\ next_to_allocate' = next_to_allocate

\* C23: allocate_id() on a wrapper whose free set is empty fails with the
\* pool-exhausted error, constructs no SmartId and leaves the free set and
\* the cursor unchanged.
C23_ExhaustedAllocateIdFails ==
    [][\A t \in Threads :
          (CallEnds(t, "allocate_id") /\ is_empty(free_ids))
              => AllocateIdFails(t, "PoolExhausted")]_vars

\* the same, with the error that a poisoned Mutex gives instead
C23_ExhaustedAllocateIdPanics ==
    [][\A t \in Threads :
          (CallEnds(t, "allocate_id") /\ is_empty(free_ids))
              => AllocateIdFails(t, IF poisoned THEN "Poisoned" ELSE "PoolExhausted")]_vars

\* ------------------------------------------------------------------------
\* Readers and the lock
\* ------------------------------------------------------------------------
\* the step in which the dump or can_allocate of thread t reads free_ids
Reads(t) ==
    /\ Holds(t, "dump") \/ Holds(t, "can_allocate")
    /\ pc'[t].stage = "idle"

\* no body is part way through its BTreeSet calls: the intervals are those
\* left by the last complete call
BetweenOperations ==
    /\ todo = <<>>
    /\ \A u \in Threads : pc[u].stage # "running"
    /\ WellFormed(free_ids)
    /\ Disjoint(free_ids)
    /\ NonAdjacent(free_ids)
    /\ FreeSet = IdRange \ allocated

\* C24: a dump() or can_allocate() made while other threads run allocate_id,
\* SmartId drops and mark_value_as_used reads the free set as it is between
\* two complete calls, never part way through a split or a merge.
C24_ReadersSeeCompleteOperations ==
    [][\A t \in Threads : Reads(t) => BetweenOperations]_vars

\* a body is part way through its BTreeSet calls, the intervals are not those
\* of a complete call, and a reader waits for the lock
C24_Witness ==
    \E t, u \in Threads :
        /\ Runs(t)
        /\ todo # <<>>
        /\ ~Disjoint(free_ids) \/ FreeSet # IdRange \ allocated
        /\ pc[u].stage = "waiting"
        /\ pc[u].call \in {"dump", "can_allocate"}

RECURSIVE ApplyCalls(_, _)
ApplyCalls(s, calls) ==
    IF calls = <<>> THEN s ELSE ApplyCalls(ApplyCall(s, Head(calls)), Tail(calls))

\* the BTreeSet calls of a body, made in turn, give the intervals that the
\* body gives when it is taken in one step
BodyOfCalls(t) ==
    IF pc[t].call = "allocate_id"
    THEN allocate(free_ids, reuse_policy, next_to_allocate, min_id, max_id).free
    ELSE IF pc[t].call = "drop"
    THEN IF guards[pc[t].g].we_own_id THEN free(free_ids, guards[pc[t].g].id).free
         ELSE free_ids
    ELSE mark_value_as_used(free_ids, pc[t].a, min_id, max_id).free

CallsGiveBody ==
    [][\A t \in Threads :
          (pc[t].stage = "locked" /\ pc'[t].stage = "running")
              => ApplyCalls(free_ids, todo') = BodyOfCalls(t)]_vars

\* ------------------------------------------------------------------------
\* The lock
\* ------------------------------------------------------------------------
InCall(t) == pc[t].stage \in {"waiting", "locked"}

\* the Mutex is held only by a thread that is inside a call and has taken it
LockHeldInCall ==
    /\ lock # 0 => (lock \in Threads /\ pc[lock].stage = "locked")
    /\ \A t \in Threads : pc[t].stage = "locked" => lock = t
    /\ (\A t \in Threads : ~InCall(t)) => lock = 0

\* a call takes the lock once, from waiting, and ends with the lock released:
\* either it held the lock, or lock() found the Mutex poisoned
LockOnce ==
    \A t \in Threads :
        /\ (pc[t].stage # "locked" /\ pc'[t].stage = "locked")
              => (pc[t].stage = "waiting" /\ lock = 0 /\ lock' = t)
        /\ (InCall(t) /\ ~InCall(t)')
              => /\ lock' = 0
                 /\ \/ pc[t].stage = "locked" /\ lock = t
                    \/ pc[t].stage = "waiting" /\ lock = 0 /\ poisoned
                    \/ pc'[t].stage = "aborted"

InsertRefusesOverlap(lower, upper) ==
    \A r \in {insert_interval(free_ids, lower, upper)} :
        /\ r.ok = ((lower..upper) \cap FreeSet = {})
        /\ ~r.ok => r.set = free_ids
        /\ lower = upper => insert_value(free_ids, lower) = r

\* C26: insert_interval(lower,upper) and insert_value(v) return false and
\* leave the stored intervals unchanged whenever the new range shares a value
\* with a stored interval, and return true otherwise.
C26_InsertRefusesOverlap ==
    /\ [](\A lower \in T, upper \in T : lower <= upper => InsertRefusesOverlap(lower, upper))
    /\ [][(op' \in {"insert_interval", "insert_value"} /\ result' \in {"true", "false"})
             => /\ (result' = "false")
                   = ((args'[1]..args'[Len(args')]) \cap FreeSet # {})
                /\ result' = "false" => free_ids' = free_ids]_vars

\* insert_interval has just refused a range that reaches over two stored
\* intervals and the gap between them
C26_Witness ==
    /\ op = "insert_interval"
    /\ result = "false"
    /\ Len(free_ids) >= 2
    /\ \E i \in DOMAIN free_ids :
          /\ i + 1 \in DOMAIN free_ids
          /\ args[1] <= free_ids[i].upper
          /\ args[2] >= free_ids[i + 1].lower

\* the stored interval that holds lower..upper starts at lower unless
\* lower - 1 was stored, and ends at upper unless upper + 1 was stored
MergedInto(s, lower, upper) ==
    \E i \in DOMAIN s :
        /\ s[i].lower <= lower
        /\ upper <= s[i].upper
        /\ (s[i].lower = lower) = (lower - 1 \notin FreeSet)
        /\ (s[i].upper = upper) = (upper + 1 \notin FreeSet)

Neighbours(lower, upper) == {lower - 1, upper + 1} \cap FreeSet

InsertAddsAndMerges(lower, upper) ==
    \A r \in {insert_interval(free_ids, lower, upper)} :
        r.ok => /\ Values(r.set) = FreeSet \cup (lower..upper)
                /\ Disjoint(r.set)
                /\ NonAdjacent(r.set)
                /\ MergedInto(r.set, lower, upper)
                /\ Len(r.set) = Len(free_ids) + 1 - Cardinality(Neighbours(lower, upper))

\* C27: when insert_interval(lower,upper) returns true the set holds the
\* previous values plus lower..upper, and the new range is merged with its
\* neighbours: one interval replaces both when it is adjacent to both, the
\* adjacent one is extended when it is adjacent to one, and a standalone
\* interval is added when it is adjacent to none.
C27_InsertAddsAndMerges ==
    /\ [](\A lower \in T, upper \in T : lower <= upper => InsertAddsAndMerges(lower, upper))
    /\ [][(op' = "insert_interval" /\ result' = "true")
             => /\ FreeSet' = FreeSet \cup (args'[1]..args'[2])
                /\ Len(free_ids') = Len(free_ids) + 1
                                    - Cardinality(Neighbours(args'[1], args'[2]))]_vars

\* insert_interval has just filled the gap between two stored intervals,
\* which are now one
C27_Witness ==
    /\ op = "insert_interval"
    /\ result = "true"
    /\ \E i \in DOMAIN free_ids :
          /\ free_ids[i].lower < args[1]
          /\ args[2] < free_ids[i].upper

\* ------------------------------------------------------------------------
\* remove_value and remove_first_value as functions of the stored set
\* ------------------------------------------------------------------------
Seq2Set(s) == {s[i] : i \in DOMAIN s}

\* what is left of the interval iv once v is taken out of it
Remainders(iv, v) ==
    (IF iv.lower < v THEN {Interval(iv.lower, v - 1)} ELSE {})
    \cup (IF v < iv.upper THEN {Interval(v + 1, iv.upper)} ELSE {})

SplitsAt(s, v) ==
    \A i \in DOMAIN free_ids :
        contains_value(free_ids[i], v)
            => Seq2Set(s) = (Seq2Set(free_ids) \ {free_ids[i]}) \cup Remainders(free_ids[i], v)

RemoveValueExact(v) ==
    \A r \in {remove_value(free_ids, v)} :
        /\ r.ok = (v \in FreeSet)
        /\ r.ok => /\ Values(r.set) = FreeSet \ {v}
                   /\ SplitsAt(r.set, v)
                   /\ Len(r.set) = Cardinality(Seq2Set(r.set))
        /\ ~r.ok => r.set = free_ids

\* C28: remove_value(v) returns true exactly when v is in a stored interval;
\* then the set holds the previous values minus v, the interval that held v
\* being replaced by [lower,v-1] and [v+1,upper], each only when non-empty;
\* when it returns false the set is unchanged.
C28_RemoveValueExact ==
    /\ [](\A v \in T : RemoveValueExact(v))
    /\ [][op' = "remove_value"
             => /\ (result' = "true") = (args'[1] \in FreeSet)
                /\ FreeSet' = FreeSet \ {args'[1]}
                /\ result' = "false" => free_ids' = free_ids]_vars

\* remove_value has just taken a value out of the middle of an interval,
\* leaving both remainders
C28_Witness ==
    /\ op = "remove_value"
    /\ result = "true"
    /\ args[1] \notin FreeSet
    /\ args[1] - 1 \in FreeSet
    /\ args[1] + 1 \in FreeSet

\* the first interval without its first value, if anything is left of it
FirstShrunk(s) ==
    IF s[1].lower = s[1].upper THEN Tail(s)
    ELSE <<Interval(s[1].lower + 1, s[1].upper)>> \o Tail(s)

RemoveFirstValueExact ==
    ~is_empty(free_ids) =>
        \A r \in {remove_first_value(free_ids)} :
            /\ r.value = SetMin(FreeSet)
            /\ Values(r.set) = FreeSet \ {r.value}
            /\ r.set = FirstShrunk(free_ids)

RemoveFirstValueStep ==
    op' = "remove_first_value" =>
        IF is_empty(free_ids)
        THEN /\ result' = "EmptyPool"
             /\ ret' = NoId
             /\ free_ids' = free_ids
        ELSE /\ result' = "Ok"
             /\ ret' = SetMin(FreeSet)
             /\ FreeSet' = FreeSet \ {ret'}
             /\ free_ids' = FirstShrunk(free_ids)

\* C29: remove_first_value() on a non-empty set returns the smallest stored
\* value and removes that value only, the first interval becoming
\* [lower+1,upper] or going when it held one value; on an empty set it fails
\* with the empty-pool error.
C29_RemoveFirstValueExact ==
    /\ []RemoveFirstValueExact
    /\ [][RemoveFirstValueStep]_vars

\* remove_first_value has just taken the first value of an interval of
\* several, with another interval stored after it
C29_Witness ==
    /\ op = "remove_first_value"
    /\ result = "Ok"
    /\ Len(free_ids) >= 2
    /\ free_ids[1].lower = ret + 1
    /\ free_ids[1].lower < free_ids[1].upper

\* remove_first_value has just failed on an empty set
C29_WitnessEmpty ==
    /\ op = "remove_first_value"
    /\ result = "EmptyPool"
    /\ is_empty(free_ids)

\* ------------------------------------------------------------------------
\* Overflow and underflow
\* ------------------------------------------------------------------------
Overflows(arith) == Sum(TMAX) \in arith \/ Diff(TMIN) \in arith

\* the additions and subtractions of every operation of Intervals on the
\* stored intervals
IntervalsArith ==
    UNION {insert_arith(free_ids, Interval(p[1], p[2])) \cup
           remove_interval_arith(free_ids, p[1], p[2]) :
               p \in {q \in T \X T : q[1] <= q[2]}}
    \cup UNION {remove_value_arith(free_ids, v) : v \in T}
    \cup (IF is_empty(free_ids) THEN {} ELSE remove_first_value_arith(free_ids))

\* those of every call of the manager in its present state: allocate, the
\* cursor step, free(id) and mark_value_as_used(id) for every id, and
\* mark_interval_as_used for every range that Interval::new accepts
ManagerArith ==
    allocate_arith(free_ids, reuse_policy, next_to_allocate, min_id, max_id)
    \cup increment_id_arith(next_to_allocate, min_id, max_id)
    \cup UNION {insert_arith(free_ids, new_single_value_interval(id))
                \cup remove_value_arith(free_ids, id) : id \in T}
    \cup UNION {remove_interval_arith(free_ids, p[1], p[2]) :
                   p \in {q \in T \X T : IntervalNewOk(q[1], q[2])}}

\* C30: no operation of the interval set or of the manager computes MAX+1 or
\* MIN-1 of the id type: in every reachable state and for every argument,
\* insert, remove_value, remove_first_value, remove_interval, the adjacency
\* predicates and the cursor step add or subtract one only below MAX and
\* above MIN.
C30_NoOverflow == ~Overflows(IntervalsArith) /\ ~Overflows(ManagerArith)

\* the cursor has just stepped from an id equal to MAX of the type back to
\* min_id, and MIN of the type is free
C30_Witness ==
    /\ op = "allocate"
    /\ result = "Ok"
    /\ reuse_policy = ReuseSlow
    /\ ret = TMAX
    /\ max_id = TMAX
    /\ next_to_allocate = min_id
    /\ min_id = TMIN
    /\ TMIN \in FreeSet

\* ------------------------------------------------------------------------
\* The ordering of intervals
\* ------------------------------------------------------------------------
\* the lexicographic comparison of (a.lower, a.upper) with (b.lower, b.upper)
LexCmp(a, b) ==
    IF a.lower # b.lower THEN ord_cmp(a.lower, b.lower)
    ELSE ord_cmp(a.upper, b.upper)

\* every interval Interval::new builds over the id type
Keys == {Interval(p[1], p[2]) : p \in {q \in T \X T : IntervalNewOk(q[1], q[2])}}

\* a lies strictly inside b
StrictlyInside(a, b) == a.lower > b.lower /\ a.upper < b.upper

\* C31: for every pair of intervals a and b, a.cmp(b) is the lexicographic
\* comparison of (a.lower, a.upper) with (b.lower, b.upper); the pairs are
\* the ones the set compares: a stored interval and a key of a call, in
\* either order.
C31_CmpLexicographic ==
    \A i \in 1..Len(free_ids) : \A key \in Keys :
        /\ cmp(key, free_ids[i]) = LexCmp(key, free_ids[i])
        /\ cmp(free_ids[i], key) = LexCmp(free_ids[i], key)

\* what the code does instead: the two orderings agree on every pair but
\* the ones where self lies strictly inside other, and there cmp is Less in
\* both directions
C31_CmpLexicographicUnlessInside ==
    \A i \in 1..Len(free_ids) : \A key \in Keys :
        /\ ~StrictlyInside(key, free_ids[i])
              => cmp(key, free_ids[i]) = LexCmp(key, free_ids[i])
        /\ ~StrictlyInside(free_ids[i], key)
              => cmp(free_ids[i], key) = LexCmp(free_ids[i], key)
        /\ StrictlyInside(key, free_ids[i])
              => /\ cmp(key, free_ids[i]) = "Less"
                 /\ cmp(free_ids[i], key) = "Less"
                 /\ LexCmp(key, free_ids[i]) = "Greater"

\* the ordering on two intervals that do not overlap: never Equal, decided
\* by the lower bounds, and reversed when the two are exchanged
OrdersByLower(a, b) ==
    /\ cmp(a, b) = ord_cmp(a.lower, b.lower)
    /\ cmp(a, b) # "Equal"
    /\ cmp(a, b) = "Less" <=> cmp(b, a) = "Greater"

Transitive(a, b, c) ==
    cmp(a, b) = "Less" /\ cmp(b, c) = "Less" => cmp(a, c) = "Less"

\* the stored intervals as the set iterates them: each one ends below the
\* start of the next
IteratedAscending(s) == \A i \in 1..Len(s), j \in 1..Len(s) : i < j => s[i].upper < s[j].lower

\* the text of a set of ids listed in ascending order, each maximal run of
\* consecutive ids as one interval
RECURSIVE AscendingText(_)
AscendingText(ids) ==
    IF ids = {} THEN ""
    ELSE LET lo == SetMin(ids)
             hi == SetMax({h \in ids : \A v \in lo..h : v \in ids})
             rest == ids \ (lo..hi)
         IN  fmt(Interval(lo, hi))
             \o (IF rest = {} THEN "" ELSE ", " \o AscendingText(rest))

\* C32: on intervals that pairwise do not overlap Interval::cmp is a strict
\* total order, antisymmetric and transitive, that coincides with ascending
\* lower bound; the stored set is iterated in ascending id order and every
\* dump lists the free ids in ascending order.
C32_OrderedByLowerBound ==
    /\ \A a \in Keys, b \in Keys : ~overlaps(a, b) => OrdersByLower(a, b)
    /\ \A a \in Keys, b \in Keys, c \in Keys :
           ~overlaps(a, b) /\ ~overlaps(b, c) /\ ~overlaps(a, c) => Transitive(a, b, c)
    /\ IteratedAscending(free_ids)
    /\ dump(free_ids) = AscendingText(FreeSet)
    /\ op = "dump" => result = AscendingText(FreeSet)

\* a dump of two intervals, a single value below a wider interval, written
\* in that order
C32_Witness ==
    /\ op = "dump"
    /\ Len(free_ids) = 2
    /\ free_ids[1].lower = free_ids[1].upper
    /\ free_ids[2].lower < free_ids[2].upper
    /\ cmp(free_ids[1], free_ids[2]) = "Less"
    /\ result = fmt(free_ids[1]) \o ", " \o fmt(free_ids[2])

\* ------------------------------------------------------------------------
\* The ids handed out
\* ------------------------------------------------------------------------
\* C33: every id returned by allocate(), under either policy and after any
\* sequence of allocate, free and mark-used calls, lies in [min_id,max_id].
C33_AllocatedWithinBounds ==
    op = "allocate" /\ result = "Ok" => ret \in IdRange

\* what the code gives: the cursor of the delayed-reuse policy stays inside
\* the range, so its allocate returns ids of the range only, and an
\* immediate-reuse allocate made while every free id is in the range
\* returns one of them
C33_AllocatedWithinBoundsUnlessFreedOutside ==
    /\ next_to_allocate \in IdRange
    /\ op = "allocate" /\ result = "Ok" /\ reuse_policy = ReuseSlow => ret \in IdRange
    /\ FreeSet \subseteq IdRange
          => \A r \in {allocate(free_ids, reuse_policy, next_to_allocate, min_id, max_id)} :
                 r.result = "Ok" => r.id \in IdRange

\* ------------------------------------------------------------------------
\* The wrapper after a failed call
\* ------------------------------------------------------------------------
\* the step in which the call of thread t fails in its body, under the lock
FailsInBody(t) == pc[t].stage = "locked" /\ pc'[t].stage = "panicked"

\* the step in which thread t, waiting in lock(), gets an answer
LockAnswers(t) == pc[t].stage = "waiting" /\ pc'[t].stage \in {"locked", "panicked"}

\* C34: a wrapper operation that fails (allocate_id on an exhausted pool,
\* mark_interval_as_used with upper < lower) does not disable the wrapper:
\* the later dump, can_allocate, mark-used, drop and allocate_id calls take
\* the lock and complete as they would on the unchanged state.
C34_FailedCallLeavesWrapperUsable ==
    [][\A t \in Threads : LockAnswers(t) => pc'[t].stage = "locked"]_vars

\* what the code gives: the failed call leaves the manager as it was but
\* poisons the Mutex, and from then on every lock() panics
C34_FailedCallPoisonsWrapper ==
    /\ [][\A t \in Threads : FailsInBody(t) => poisoned' /\ UNCHANGED mgrVars]_vars
    /\ [][\A t \in Threads : LockAnswers(t) => (pc'[t].stage = "locked" <=> ~poisoned)]_vars
    /\ [][poisoned => poisoned' /\ UNCHANGED mgrVars]_vars

\* ------------------------------------------------------------------------
\* The free made by a drop
\* ------------------------------------------------------------------------
\* the id of every live SmartId that owns its id is out of the free set
OwnedNotFree ==
    \A g \in GuardSlots :
        (guards[g].live /\ guards[g].we_own_id) => value(guards[g]) \notin FreeSet

\* the drop of a SmartId that owns its id and got the lock frees the id
OwningDropFrees ==
    \A t \in Threads :
        (Holds(t, "drop") /\ pc'[t].stage # "locked" /\ guards[pc[t].g].we_own_id) =>
            /\ free(free_ids, value(guards[pc[t].g])).result = "Ok"
            /\ pc'[t].stage = "idle"
            /\ pc'[t].result = "Ok"
            /\ value(guards[pc[t].g]) \in FreeSet'

\* C35: with the wrapper's public operations only (allocate_id,
\* mark_value_as_used, mark_interval_as_used, release, drop) the id of a
\* live SmartId that owns it is never in the free set, so the free made by
\* its drop never fails with the not-allocated error.
C35_OwningDropNeverFails ==
    /\ []OwnedNotFree
    /\ [][OwningDropFrees]_vars
    /\ [](\A t \in Threads : pc[t].result # "NotAllocated")

\* every id of the range is free again after the cursor of the
\* delayed-reuse policy has moved on: an id was handed out and the drop of
\* its owning SmartId has freed it
C35_Witness ==
    /\ reuse_policy = ReuseSlow
    /\ next_to_allocate # min_id
    /\ FreeSet = IdRange
    /\ ~poisoned
    /\ \A g \in GuardSlots : ~guards[g].live
    /\ \E t \in Threads : pc[t].stage = "idle" /\ pc[t].result = "Ok" /\ pc[t].ret = NoId

\* ------------------------------------------------------------------------
\* Released ids
\* ------------------------------------------------------------------------
\* some live SmartId owns the id
Owned(id) ==
    \E g \in GuardSlots : guards[g].live /\ guards[g].we_own_id /\ value(guards[g]) = id

\* the id is out of the free set and no SmartId is left that would free it
Retired(id) == id \notin FreeSet /\ ~Owned(id)

\* a release that returns retires the id of its SmartId
ReleaseRetires ==
    \A t \in Threads :
        (CallEnds(t, "release") /\ pc'[t].stage = "idle") =>
            \E id \in {value(guards[pc[t].g])} : Retired(id)'

\* a retired id stays retired, it does not enter the free set and no
\* SmartId comes to own it: every id that is free or owned after the step
\* was free or owned before it
StaysRetired ==
    \A id \in FreeSet' \cup {value(guards'[g]) : g \in GuardSlots} :
        ~Retired(id)' => ~Retired(id)

\* an allocate_id that returns hands out an id that was free, not a retired one
HandsOutFree ==
    \A t \in Threads :
        (CallEnds(t, "allocate_id") /\ pc'[t].stage = "idle") =>
            /\ pc'[t].ret \in FreeSet
            /\ ~Retired(pc'[t].ret)

\* C36: with the wrapper's public operations only, an id whose SmartId was
\* released never re-enters the free set and is never returned by a later
\* allocate_id, for the whole lifetime of the wrapper: the release retires
\* the id, and in every step a retired id stays retired and the id an
\* allocate_id returns is not a retired one.
C36_ReleasedIdNeverReturns ==
    [][ReleaseRetires /\ StaysRetired /\ HandsOutFree]_vars

\* the SmartId of the lowest id was released and is still alive, the id is
\* retired, and an allocate_id of the immediate-reuse policy, which hands
\* out the lowest free id, has returned the next id to another SmartId
C36_Witness ==
    /\ reuse_policy = ReuseFast
    /\ Retired(min_id)
    /\ \E g \in GuardSlots :
          /\ guards[g].live
          /\ ~guards[g].we_own_id
          /\ value(guards[g]) = min_id
    /\ \E g \in GuardSlots :
          /\ guards[g].live
          /\ guards[g].we_own_id
          /\ value(guards[g]) = min_id + 1
          /\ pc[Owner(g)].stage = "idle"
          /\ pc[Owner(g)].ret = min_id + 1

\* ------------------------------------------------------------------------
\* The cursor
\* ------------------------------------------------------------------------
\* the call made in this step keeps the cursor unless it is an allocate of
\* the delayed-reuse policy
CursorFrame ==
    /\ op' \in {"free", "mark_value_as_used", "mark_interval_as_used"}
          => next_to_allocate' = next_to_allocate
    /\ op' = "allocate" /\ reuse_policy = ReuseFast
          => next_to_allocate' = next_to_allocate
    /\ next_to_allocate' # next_to_allocate
          => op' = "allocate" /\ reuse_policy = ReuseSlow /\ result' = "Ok"

\* C37: free, mark_value_as_used and mark_interval_as_used never change
\* next_to_allocate, and under the immediate-reuse policy allocate never
\* changes it either; only an allocate of the delayed-reuse policy moves
\* the cursor.
C37_OnlySlowAllocateMovesCursor == [][CursorFrame]_vars

\* an immediate-reuse allocate has returned an id above the cursor, which
\* still stands on min_id, after ids were taken and freed
C37_Witness ==
    /\ op = "allocate"
    /\ result = "Ok"
    /\ reuse_policy = ReuseFast
    /\ next_to_allocate = min_id
    /\ ret > min_id
    /\ ret \in IdRange
    /\ FreeSet # {}

\* ------------------------------------------------------------------------
\* The cursor reaches every free id
\* ------------------------------------------------------------------------
\* the ids returned by n allocate() calls in a row, as far as they succeed
RECURSIVE ReturnedWithin(_, _, _, _, _)
ReturnedWithin(fs, cur, lo, hi, n) ==
    IF n = 0 THEN {}
    ELSE LET r == allocate(fs, ReuseSlow, cur, lo, hi)
         IN  IF r.result # "Ok" THEN {}
             ELSE {r.id} \cup ReturnedWithin(r.free, r.next, lo, hi, n - 1)

\* with no other call in between, the next max_id-min_id+1 allocate() calls
\* return every id that is free now
AllReturnedInOneRound ==
    (reuse_policy = ReuseSlow /\ FreeSet \subseteq IdRange) =>
        /\ next_to_allocate \in IdRange
        /\ FreeSet \subseteq
               ReturnedWithin(free_ids, next_to_allocate, min_id, max_id, RangeSize)

\* with any calls in between: an allocate() made while x is free succeeds,
\* and returns x or brings the cursor at least one step closer to x; every
\* other call that leaves x free leaves the cursor at its distance from x
CursorApproaches ==
    (reuse_policy = ReuseSlow /\ FreeSet \subseteq IdRange) =>
        \A x \in FreeSet :
            /\ op' = "allocate" =>
                  /\ result' = "Ok"
                  /\ \/ ret' = x
                     \/ /\ x \in FreeSet'
                        /\ CyclicDist(next_to_allocate', x)
                               < CyclicDist(next_to_allocate, x)
            /\ (op' # "allocate" /\ x \in FreeSet') =>
                  CyclicDist(next_to_allocate', x)
                      = CyclicDist(next_to_allocate, x)

\* C38: under the delayed-reuse policy with all free ids inside
\* [min_id,max_id], an id that is free and stays free is returned within at
\* most max_id-min_id+1 subsequent successful allocate() calls: its distance
\* from the cursor, counted in cursor steps, is below max_id-min_id+1, every
\* allocate() that does not return it shortens the distance, and no other
\* call lengthens it.
C38_FreeIdReturnedWithinOneRound ==
    []AllReturnedInOneRound /\ [][CursorApproaches]_vars

\* an id freed right after its allocation, one step behind the cursor, is
\* still free after the next allocate(), which returned another id and
\* brought the cursor one step closer
C38_Witness ==
    /\ reuse_policy = ReuseSlow
    /\ op = "allocate"
    /\ result = "Ok"
    /\ FreeSet \subseteq IdRange
    /\ RangeSize >= 3
    /\ refreed.stage = "next"
    /\ refreed.id \in FreeSet
    /\ ret # refreed.id
    /\ CyclicDist(next_to_allocate, refreed.id) = RangeSize - 2

====
